---------------------------- MODULE Spec2Model ----------------------------
(***************************************************************************)
(* A model of the MS2 identification core of lipyd (src/src/lipyd/ms2.py,  *)
(* fragdb.py, mgf.py and sampleattrs.py of the same directory).            *)
(*                                                                         *)
(*   Spec          the Scan object: construction, sort_mz, sort_intensity, *)
(*                 adduct views and the queries that toggle the order.     *)
(*   SpecIdentify  the identifier objects: confirm_class, the chain        *)
(*                 confirmation generators and identify().                 *)
(*   SpecChains    the chain combination solver: chain_combinations and    *)
(*                 missing_chain over a chain fragment list.               *)
(*   SpecFeature   the MS2Feature object: build_scans, identify and        *)
(*                 identity_summary over the scans of a feature.           *)
(*   SpecQueries   the Scan object with all its queries: has_mz,           *)
(*                 has_fragment, most_abundant_mz and the others.          *)
(*   SpecIntensities  construction from ion counts that may be zero,       *)
(*                 intensity_ratios and the solver on such scans.          *)
(*   SpecScenario  the solver on three fatty acyl fragments of a record    *)
(*                 of two chains.                                          *)
(*   SpecFilters   chain_fragment_type_is with its filters on the chain    *)
(*                 attributes.                                             *)
(*   SpecMatching  matching_chain_combinations and has_chain_combination.  *)
(*   SpecFragDb    the fragdb module: init_db, get_db and lookup_nl.       *)
(*   SpecMgf       MgfReader.lookup and MS2Feature.mgf_iterscans.          *)
(*   SpecSorters   SampleSorter objects registering and sorting each       *)
(*                 other.                                                  *)
(*   SpecChainList the cached chain lists under the sort transitions.      *)
(*                                                                         *)
(* Arrays are sequences.  numpy indices are 0-based; positions in the      *)
(* sequences are 1-based, index *values* held by the program (irank, the   *)
(* peak index i of a chain fragment, a returned index) keep the 0-based    *)
(* value of the code.  m/z values and intensities are small integers.      *)
(***************************************************************************)
EXTENDS Integers, Sequences, FiniteSets, TLC

VARIABLES
    scan,      \* the Scan object: a record of its attributes
    op,        \* the name of the last operation called on the scan
    argv,      \* the arguments of that call
    ret,       \* what the last query returned
    rt,        \* progress of a sort_mz(); sort_intensity(); sort_mz() sequence
    idf,       \* the identifier object (AbstractMS2Identifier subclass)
    emitted,   \* the MS2Identity records yielded by the runs of identify()
    solver,    \* the chain combination solver's input and yielded output
    feature,   \* the MS2Feature object: a record of its attributes
    db,        \* the fragdb module: its db_pos and db_neg attributes
    mgf,       \* the MgfReader object: its index and settings
    sorters    \* the SampleSorter objects: sample order and registrations

vars == <<scan, op, argv, ret, rt, idf, emitted, solver, feature, db, mgf, sorters>>

----------------------------------------------------------------------------
(* Bounds of the model.                                                    *)

MaxPeaks == 3
MaxMz == 2
MaxInt == 2

(* ms2_tolerance, in ppm.                                                  *)
Tolerance == 20

None == "None"

(* An optional value: <<>> for None, <<x>> for the value x.                *)
Nothing == <<>>

Some(x) == <<x>>

(* Python truth value of an optional index: None and 0 are both false.     *)
Truthy(o) == o # Nothing /\ o[1] # 0

----------------------------------------------------------------------------
(* Generic helpers.                                                        *)

Abs(x) == IF x < 0 THEN -x ELSE x

Max(a, b) == IF a >= b THEN a ELSE b

Min(a, b) == IF a <= b THEN a ELSE b

RECURSIVE SumSeq(_)
SumSeq(s) == IF s = <<>> THEN 0 ELSE Head(s) + SumSeq(Tail(s))

RECURSIVE Flatten(_)
Flatten(ss) == IF ss = <<>> THEN <<>> ELSE Head(ss) \o Flatten(Tail(ss))

Perms(n) ==
    {p \in [1..n -> 1..n] : \A i, j \in 1..n : i # j => p[i] # p[j]}

(* a[isort]: numpy indexing of an array by an index array.                 *)
Take(a, isort) == [k \in 1..Len(isort) |-> a[isort[k]]]

(* a[::-1]                                                                 *)
Reversed(a) == [k \in 1..Len(a) |-> a[Len(a) + 1 - k]]

(* np.argsort(a) of an array of tagged values: the index array that puts   *)
(* the values in non-decreasing order.  On arrays of this size numpy's     *)
(* default sort is an insertion sort: equal values keep their order.       *)
argsort(a) ==
    CHOOSE p \in Perms(Len(a)) :
        \A k \in 1..(Len(a) - 1) :
            \/ a[p[k]].v < a[p[k + 1]].v
            \/ (a[p[k]].v = a[p[k + 1]].v /\ p[k] < p[k + 1])

Values(a) == [k \in 1..Len(a) |-> a[k].v]

----------------------------------------------------------------------------
(* The tolerance matcher (lipyd.lookup) and the fragment database.         *)

(* |detected - mz| <= mz * tolerance * 1e-6, the tolerance a ratio         *)
(* tolnum / tolden of ppm.                                                 *)
match(detected, mz, tolnum, tolden) ==
    Abs(detected - mz) * 1000000 * tolden <= mz * tolnum

(* lookup.findall: the indices (1-based positions) of all matches.         *)
findall(haystack, mz, tolnum, tolden) ==
    {k \in 1..Len(haystack) : match(haystack[k], mz, tolnum, tolden)}

(* lookup.find: the closest match, the lower index on a tie; None if no    *)
(* value is within tolerance.  Returns the 0-based index of the code.      *)
find(haystack, mz, tol) ==
    LET hits == findall(haystack, mz, tol, 1)
    IN  IF hits = {} THEN Nothing
        ELSE Some((CHOOSE k \in hits :
                \A j \in hits :
                    \/ Abs(haystack[k] - mz) < Abs(haystack[j] - mz)
                    \/ (Abs(haystack[k] - mz) = Abs(haystack[j] - mz) /\ k <= j)) - 1)

(* The fragment table of one ion mode, sorted by mass: rows of             *)
(* (mz, name, fragtype, chaintype, c, u, charge); c = 0 stands for the     *)
(* nan of a fragment without a chain, charge = 0 marks a neutral loss.     *)
FragDb ==
    << [mz |-> 1, name |-> "FA-H 1:0", fragtype |-> "FA-H",
        chaintype |-> "FA", c |-> 1, u |-> 0, charge |-> -1],
       [mz |-> 1, name |-> "NL H2O", fragtype |-> "NL",
        chaintype |-> "", c |-> 0, u |-> 0, charge |-> 0],
       [mz |-> 2, name |-> "FA-H 2:1", fragtype |-> "FA-H",
        chaintype |-> "FA", c |-> 2, u |-> 1, charge |-> -1],
       [mz |-> 2, name |-> "Sph-H 2:0", fragtype |-> "Sph-H",
        chaintype |-> "Sph", c |-> 2, u |-> 0, charge |-> -1] >>

DbMasses == [k \in 1..Len(FragDb) |-> FragDb[k].mz]

(* FragmentDatabaseAggregator.lookup                                       *)
db_lookup(mz, nl, tolnum, tolden) ==
    LET idx == findall(DbMasses, mz, tolnum, tolden)
    IN  SelectSeq(
            [k \in 1..Len(FragDb) |-> [row |-> FragDb[k], at |-> k]],
            LAMBDA r :
                /\ r.at \in idx
                /\ \/ (nl /\ r.row.charge = 0)
                   \/ (~nl /\ r.row.charge # 0))

Rows(rs) == [k \in 1..Len(rs) |-> rs[k].row]

(* lookup_nl as it would be if it passed the tolerance on as it is.        *)
db_lookup_nl_raw_tolerance(mz, precursor, tol) ==
    LET nlmz == precursor - mz
    IN  db_lookup(nlmz, TRUE, tol, 1)

(* FragmentDatabaseAggregator.lookup_nl: the tolerance is rescaled by      *)
(* mz / (precursor - mz).                                                  *)
db_lookup_nl(mz, precursor, tol) ==
    LET nlmz == precursor - mz
    IN  db_lookup(nlmz, TRUE, mz * tol, nlmz)

(* FragmentAnnotator.annotate: neutral losses first when the precursor is  *)
(* known, then the charged fragments.  precursor = 0 stands for None.      *)
annotate(mz, precursor, tol) ==
    (IF precursor # 0
        THEN Rows(db_lookup_nl(mz, precursor, tol))
        ELSE <<>>)
    \o Rows(db_lookup(mz, FALSE, tol, 1))

(* ScanBase.get_annot: one annotation tuple per peak, in the current       *)
(* order of mzs.                                                           *)
get_annot(mzs, precursor, tol) ==
    [k \in 1..Len(mzs) |->
        [v |-> annotate(mzs[k].v, precursor, tol), pk |-> mzs[k].pk]]

----------------------------------------------------------------------------
(* ScanBase: the parallel arrays and the two sort orders.                  *)
(* Every array element is [v |-> value, pk |-> tag]: pk is the position    *)
(* of the peak in the constructor's input, carried along to tell which     *)
(* original peak an element belongs to.                                    *)

Has(s, attr) == attr \in s.attrs

AdductNames == {"[M+NH4]+"}

(* sort as it would be if the cached adduct views were left out of the     *)
(* permutation.                                                            *)
sort_without_adducts(s, isort) ==
    [s EXCEPT
        !.intensities = Take(s.intensities, isort),
        !.mzs = Take(s.mzs, isort),
        !.irank = IF Has(s, "irank") THEN Take(s.irank, isort) ELSE @,
        !.annot = IF Has(s, "annot") THEN Take(s.annot, isort) ELSE @,
        !.inorm = IF Has(s, "inorm") THEN Take(s.inorm, isort) ELSE @]

(* ScanBase.sort: applies sorted indices to the scan.                      *)
sort(s, isort) ==
    [s EXCEPT
        !.intensities = Take(s.intensities, isort),
        !.mzs = Take(s.mzs, isort),
        !.irank = IF Has(s, "irank") THEN Take(s.irank, isort) ELSE @,
        !.annot = IF Has(s, "annot") THEN Take(s.annot, isort) ELSE @,
        !.inorm = IF Has(s, "inorm") THEN Take(s.inorm, isort) ELSE @,
        !.adducts = [ad \in DOMAIN s.adducts |->
                        [s.adducts[ad] EXCEPT !.annot = Take(@, isort)]]]

(* sort_mz as it would be if it applied the other cached permutation.      *)
sort_mz_by_iisort(s) ==
    IF s.sorted_by = "mzs"
        THEN s
    ELSE IF Has(s, "imzsort") /\ s.sorted_by = "intensities"
        THEN [sort(s, s.iisort) EXCEPT !.sorted_by = "mzs"]
    ELSE [sort(s, argsort(s.mzs)) EXCEPT !.sorted_by = "mzs"]

(* ScanBase.sort_mz: sorts the scan by m/z values ascending.               *)
sort_mz(s) ==
    IF s.sorted_by = "mzs"
        THEN s
    ELSE IF Has(s, "imzsort") /\ s.sorted_by = "intensities"
        THEN [sort(s, s.imzsort) EXCEPT !.sorted_by = "mzs"]
    ELSE [sort(s, argsort(s.mzs)) EXCEPT !.sorted_by = "mzs"]

(* ScanBase.sort_intensity: sorts the scan by intensities descending.      *)
sort_intensity(s) ==
    IF s.sorted_by = "intensities"
        THEN s
    ELSE IF Has(s, "iisort") /\ s.sorted_by = "mzs"
        THEN [sort(s, s.iisort) EXCEPT !.sorted_by = "intensities"]
    ELSE [sort(s, Reversed(argsort(s.intensities)))
            EXCEPT !.sorted_by = "intensities"]

(* ScanBase.normalize_intensities: intensities / intensities.max(), kept   *)
(* as the pair (intensity, maximum).                                       *)
normalize_intensities(s) ==
    LET imax == CHOOSE m \in {s.intensities[k].v : k \in 1..Len(s.intensities)} :
                    \A k \in 1..Len(s.intensities) : s.intensities[k].v <= m
    IN  [s EXCEPT
            !.imax = imax,
            !.inorm = [k \in 1..Len(s.intensities) |->
                        [v |-> <<s.intensities[k].v, imax>>,
                         pk |-> s.intensities[k].pk]],
            !.attrs = @ \cup {"inorm"}]

(* Scan._build_chain_list: one ChainFragment per (peak, annotation with a  *)
(* carbon count), i the index of the peak in the order at build time.      *)
_build_chain_list(s, annot) ==
    Flatten([k \in 1..Len(annot) |->
        LET aa == SelectSeq(annot[k].v, LAMBDA a : a.c # 0)
        IN  [j \in 1..Len(aa) |->
                [c |-> aa[j].c, u |-> aa[j].u, fragtype |-> aa[j].fragtype,
                 chaintype |-> aa[j].chaintype, i |-> k - 1,
                 intensity |-> s.intensities[k].v]]])

(* ScanBase.__init__ from `self.annotate()` on, applied to the scan with   *)
(* the constructor's arguments stored.                                     *)
ScanInit(s0) ==
    LET s1 == [s0 EXCEPT
                !.annot = get_annot(s0.mzs, s0.precursor, s0.tolerance),
                !.attrs = @ \cup {"annot"}]
        s2 == normalize_intensities(s1)
        \* with mz_sorted(self): self.iisort = argsort(intensities)[::-1]
        s3 == sort_mz(s2)
        s4 == [s3 EXCEPT
                !.iisort = Reversed(argsort(s3.intensities)),
                !.attrs = @ \cup {"iisort"}]
        s5 == sort_intensity(s4)
    IN  [s5 EXCEPT
            !.irank = [k \in 1..Len(s5.mzs) |->
                        [v |-> k - 1, pk |-> s5.mzs[k].pk]],
            !.imzsort = argsort(s5.mzs),
            !.sorted_by = "intensities",
            !.attrs = @ \cup {"irank", "imzsort"}]

(* The Scan object with the constructor's arguments stored, before         *)
(* annotate() is called.                                                   *)
ScanArgs(mzs, intensities, precursor) ==
    [ tolerance |-> Tolerance,
      sorted_by |-> None,
      mzs |-> [k \in 1..Len(mzs) |-> [v |-> mzs[k], pk |-> k]],
      intensities |-> [k \in 1..Len(mzs) |-> [v |-> intensities[k], pk |-> k]],
      precursor |-> precursor,
      adducts |-> <<>>,
      annot |-> <<>>, inorm |-> <<>>, irank |-> <<>>,
      iisort |-> <<>>, imzsort |-> <<>>, imax |-> 0,
      chain_list |-> <<>>,
      attrs |-> {} ]

(* The precursor lies above every fragment m/z.                            *)
Precursors == {MaxMz + 1}

(* The peak lists given to the constructor: 1..MaxPeaks peaks with m/z in  *)
(* 1..MaxMz and a positive ion count in 1..MaxInt, listed by ascending     *)
(* m/z as the peak list of a spectrum file is.  The constructor's first    *)
(* step sorts by m/z and keeps equal m/z in their order, so a list and     *)
(* its m/z-sorted form build the same scan.                                *)
ScanInputs ==
    UNION { { inp \in ([1..n -> 1..MaxMz] \X [1..n -> 1..MaxInt]) \X Precursors :
                \A k \in 1..(n - 1) : inp[1][1][k] <= inp[1][1][k + 1] }
            : n \in 1..MaxPeaks }

ConstructedScans ==
    { ScanInit(ScanArgs(inp[1][1], inp[1][2], inp[2])) : inp \in ScanInputs }

----------------------------------------------------------------------------
(* Scan: the adduct views and the queries that toggle the sort order.     *)

(* The precursor converted to the reference adduct (lipyd.mz).             *)
fake_precursor(precursor, adduct) == precursor + 1

(* Scan.adduct                                                             *)
adduct(s, ad, reset) ==
    IF ad \in DOMAIN s.adducts /\ ~reset
        THEN s
    ELSE
        LET fp == fake_precursor(s.precursor, ad)
            annot == get_annot(s.mzs, fp, s.tolerance)
            view == [fake_precursor |-> fp,
                     annot |-> annot,
                     chain_list |-> _build_chain_list(s, annot)]
        IN  [s EXCEPT !.adducts =
                [a \in (DOMAIN s.adducts) \cup {ad} |->
                    IF a = ad THEN view ELSE s.adducts[a]]]

(* Scan.mz_lookup: <<scan after the call, returned index>>.                *)
mz_lookup(s, mz) ==
    LET s1 == sort_mz(s)
        imz == find(Values(s1.mzs), mz, s1.tolerance)
        i == IF Truthy(imz) THEN Some(s1.imzsort[imz[1] + 1] - 1) ELSE Nothing
    IN  <<sort_intensity(s1), i>>

(* Scan.has_mz: <<scan after the call, returned bool>>.                    *)
has_mz(s, mz) == << mz_lookup(s, mz)[1], mz_lookup(s, mz)[2] # Nothing >>

(* Scan.most_abundant_mz                                                   *)
most_abundant_mz(s) == s.mzs[1].v

(* Scan.mz_match                                                           *)
mz_match(s, mz_detected, mz) == match(mz_detected, mz, s.tolerance, 1)

(* Scan.nl: <<scan after the call, the m/z of the neutral loss>>.  With an *)
(* adduct the view of the adduct is created if the scan has none.  The nan *)
(* of a scan without precursor is 0 here: no peak matches it.              *)
nl(s, mz, ad) ==
    IF ad = None
        THEN << s, IF s.precursor # 0 THEN s.precursor - mz ELSE 0 >>
        ELSE LET s1 == adduct(s, ad, FALSE)
             IN  << s1, s1.adducts[ad].fake_precursor - mz >>

(* Scan.nl_lookup                                                          *)
nl_lookup(s, mz, ad) == mz_lookup(nl(s, mz, ad)[1], nl(s, mz, ad)[2])

(* fragdb.by_name: the row of the name, None if the database has none.     *)
by_name(name) ==
    LET rows == { k \in 1..Len(FragDb) : FragDb[k].name = name }
    IN  IF rows = {} THEN Nothing ELSE Some(FragDb[CHOOSE k \in rows : TRUE])

(* Scan.fragment_by_name: <<scan after the call, result>>; the result is   *)
(* False for a name the database does not have (is_false), otherwise the   *)
(* index mz_lookup returns or None.                                        *)
fragment_by_name(s, name, ad) ==
    LET frag == by_name(name)
    IN  IF frag # Nothing
            THEN LET r == IF frag[1].charge = 0
                            THEN nl_lookup(s, frag[1].mz, ad)
                            ELSE mz_lookup(s, frag[1].mz)
                 IN  << r[1], [is_false |-> FALSE, i |-> r[2]] >>
            ELSE << s, [is_false |-> TRUE, i |-> Nothing] >>

Scan_has_fragment_unknown_as_found(s, name, ad) ==
    LET r == fragment_by_name(s, name, ad)
    IN  << r[1],
           IF r[2].is_false THEN Some(TRUE) ELSE Some(r[2].i # Nothing) >>

(* Scan.has_fragment: <<scan after the call, None or the returned bool>>.  *)
Scan_has_fragment(s, name, ad) ==
    LET r == fragment_by_name(s, name, ad)
    IN  << r[1],
           IF r[2].is_false THEN Nothing ELSE Some(r[2].i # Nothing) >>

(* Scan.most_abundant_fragment_is: <<scan after the call, None or the     *)
(* returned bool>>.                                                        *)
most_abundant_fragment_is(s, name, ad) ==
    LET frag == by_name(name)
    IN  IF frag # Nothing
            THEN LET t == IF frag[1].charge = 0
                            THEN nl(s, frag[1].mz, ad)
                            ELSE << s, frag[1].mz >>
                 IN  << t[1], Some(mz_match(t[1], t[1].mzs[1].v, t[2])) >>
            ELSE << s, Nothing >>

(* Scan.mz_among_most_abundant: <<scan after the call, returned bool>>.    *)
mz_among_most_abundant(s, mz, n) ==
    LET s1 == sort_mz(s)
        \* self.mzs[self.irank < n]
        top == SelectSeq(
                [k \in 1..Len(s1.mzs) |->
                    [v |-> s1.mzs[k].v, rank |-> s1.irank[k].v]],
                LAMBDA e : e.rank < n)
        i == find(Values(top), mz, s1.tolerance)
    IN  <<sort_intensity(s1), i # Nothing>>

----------------------------------------------------------------------------
(* The Scan state machine.                                                 *)

NoIdentifier == [cls |-> None]

NoSolver == [call |-> None]

NoFeature == [scans |-> None]

(* The fragdb module before any database is built: no attribute db_pos or  *)
(* db_neg (NoAttr, the objects having an id from 1 up); built counts the   *)
(* FragmentDatabaseAggregator objects created.                             *)
NoAttr == [id |-> 0, ionmode |-> None, kwargs |-> None]

NoDb == [pos |-> NoAttr, neg |-> NoAttr, built |-> 0]

NoMgf == [mgfindex |-> None]

NoSorters == <<>>

(* The objects of the other modules, not created.                          *)
NoOthers == db = NoDb /\ mgf = NoMgf /\ sorters = NoSorters

QueryOps == {"mz_lookup", "mz_among_most_abundant"}

(* rt.stage: 1 after a sort_mz() call, 2 after sort_mz(); sort_intensity() *)
(* and 3 after sort_mz(); sort_intensity(); sort_mz().  rt.mzs holds the   *)
(* mzs array as it was right after the first sort_mz() of the sequence.    *)
RtAfterSortMz ==
    IF rt.stage = 2
        THEN [stage |-> 3, mzs |-> rt.mzs]
        ELSE [stage |-> 1, mzs |-> <<>>]

RtAfterSortIntensity ==
    IF rt.stage \in {1, 3}
        THEN [stage |-> 2, mzs |-> Values(scan.mzs)]
        ELSE [stage |-> 0, mzs |-> <<>>]

RtReset == [stage |-> 0, mzs |-> <<>>]

ScanFrame == UNCHANGED <<idf, emitted, solver, feature, db, mgf, sorters>>

Init ==
    /\ scan \in ConstructedScans
    /\ op = "__init__"
    /\ argv = <<>>
    /\ ret = Nothing
    /\ rt = RtReset
    /\ idf = NoIdentifier
    /\ emitted = <<>>
    /\ solver = NoSolver
    /\ feature = NoFeature
    /\ NoOthers

SortMz ==
    /\ scan' = sort_mz(scan)
    /\ op' = "sort_mz"
    /\ argv' = <<>>
    /\ ret' = Nothing
    /\ rt' = RtAfterSortMz
    /\ ScanFrame

SortIntensity ==
    /\ scan' = sort_intensity(scan)
    /\ op' = "sort_intensity"
    /\ argv' = <<>>
    /\ ret' = Nothing
    /\ rt' = RtAfterSortIntensity
    /\ ScanFrame

Adduct ==
    /\ scan.precursor # 0
    /\ \E ad \in AdductNames, reset \in BOOLEAN :
        /\ scan' = adduct(scan, ad, reset)
        /\ argv' = <<ad, reset>>
    /\ op' = "adduct"
    /\ ret' = Nothing
    /\ rt' = RtReset
    /\ ScanFrame

MzLookup ==
    /\ \E mz \in 1..MaxMz :
        /\ scan' = mz_lookup(scan, mz)[1]
        /\ ret' = mz_lookup(scan, mz)[2]
        /\ argv' = <<mz>>
    /\ op' = "mz_lookup"
    /\ rt' = RtReset
    /\ ScanFrame

HasMz ==
    /\ \E mz \in 1..MaxMz :
        /\ scan' = has_mz(scan, mz)[1]
        /\ ret' = Some(has_mz(scan, mz)[2])
        /\ argv' = <<mz>>
    /\ op' = "has_mz"
    /\ rt' = RtReset
    /\ ScanFrame

(* The fragment names asked for: those of the database and one it does    *)
(* not have.                                                               *)
FragmentNames ==
    { FragDb[k].name : k \in 1..Len(FragDb) } \cup { "nonexistent_name" }

HasFragment ==
    /\ \E name \in FragmentNames, ad \in {None} \cup AdductNames :
        /\ scan' = Scan_has_fragment(scan, name, ad)[1]
        /\ ret' = Scan_has_fragment(scan, name, ad)[2]
        /\ argv' = <<name, ad>>
    /\ op' = "has_fragment"
    /\ rt' = RtReset
    /\ ScanFrame

MostAbundantMz ==
    /\ ret' = Some(most_abundant_mz(scan))
    /\ op' = "most_abundant_mz"
    /\ argv' = <<>>
    /\ rt' = RtReset
    /\ UNCHANGED scan
    /\ ScanFrame

MostAbundantFragmentIs ==
    /\ \E name \in FragmentNames, ad \in {None} \cup AdductNames :
        /\ scan' = most_abundant_fragment_is(scan, name, ad)[1]
        /\ ret' = most_abundant_fragment_is(scan, name, ad)[2]
        /\ argv' = <<name, ad>>
    /\ op' = "most_abundant_fragment_is"
    /\ rt' = RtReset
    /\ ScanFrame

MzAmongMostAbundant ==
    /\ \E mz \in 1..MaxMz, n \in 1..2 :
        /\ scan' = mz_among_most_abundant(scan, mz, n)[1]
        /\ ret' = Some(mz_among_most_abundant(scan, mz, n)[2])
        /\ argv' = <<mz, n>>
    /\ op' = "mz_among_most_abundant"
    /\ rt' = RtReset
    /\ ScanFrame

Next ==
    \/ SortMz
    \/ SortIntensity
    \/ Adduct
    \/ MzLookup
    \/ MzAmongMostAbundant

Spec == Init /\ [][Next]_vars

(* The queries by m/z, by fragment name and of the most abundant peak,     *)
(* called in either sort order.  A call is made when the caller has taken  *)
(* the result of the call before (QueryReturn).                            *)
CalledOps ==
    {"mz_lookup", "has_mz", "has_fragment", "most_abundant_mz",
     "most_abundant_fragment_is"}

Idle == op \notin CalledOps

QueryReturn ==
    /\ ~Idle
    /\ op' = "return"
    /\ argv' = <<>>
    /\ ret' = Nothing
    /\ UNCHANGED <<scan, rt>>
    /\ ScanFrame

NextQueries ==
    \/ Idle /\ SortMz
    \/ Idle /\ SortIntensity
    \/ Idle /\ MzLookup
    \/ Idle /\ HasMz
    \/ Idle /\ HasFragment
    \/ Idle /\ MostAbundantMz
    \/ Idle /\ MostAbundantFragmentIs
    \/ QueryReturn

SpecQueries == Init /\ [][NextQueries]_vars

----------------------------------------------------------------------------
(* Properties of the Scan object (checked under Spec).                     *)

NonDecreasing(a) == \A k \in 1..(Len(a) - 1) : a[k] <= a[k + 1]

NonIncreasing(a) == \A k \in 1..(Len(a) - 1) : a[k] >= a[k + 1]

(* The sort transitions have really moved peaks: the intensity rank of     *)
(* some peak differs from its current position.                            *)
Permuted(s) == \E k \in 1..Len(s.irank) : s.irank[k].v # k - 1

(* C1: in every reachable state, at every index i, mzs[i], intensities[i], *)
(* inorm[i], irank[i], annot[i] and the annot[i] of every cached adduct    *)
(* view belong to the same original peak (and hold that peak's values).    *)
C1_ParallelArrays ==
    \A i \in 1..Len(scan.mzs) :
        LET pk == scan.mzs[i].pk
        IN  /\ scan.intensities[i].pk = pk
            /\ scan.inorm[i].pk = pk
            /\ scan.irank[i].pk = pk
            /\ scan.annot[i].pk = pk
            /\ scan.inorm[i].v = <<scan.intensities[i].v, scan.imax>>
            /\ scan.annot[i].v =
                    annotate(scan.mzs[i].v, scan.precursor, scan.tolerance)
            /\ \A ad \in DOMAIN scan.adducts :
                    /\ scan.adducts[ad].annot[i].pk = pk
                    /\ scan.adducts[ad].annot[i].v =
                            annotate(scan.mzs[i].v,
                                     scan.adducts[ad].fake_precursor,
                                     scan.tolerance)

(* C1's case: an adduct view is cached and a sort transition has moved     *)
(* the peaks away from the order it was computed in.                       *)
C1_Witness ==
    /\ op = "sort_mz"
    /\ scan.sorted_by = "mzs"
    /\ DOMAIN scan.adducts # {}
    /\ Permuted(scan)

(* C2: the arrays are in the order that sorted_by names: mzs is            *)
(* non-decreasing whenever sorted_by is 'mzs' and intensities is           *)
(* non-increasing whenever sorted_by is 'intensities', also when peaks     *)
(* share an m/z or an intensity.                                           *)
C2_SortedAsNamed ==
    /\ scan.sorted_by = "mzs" => NonDecreasing(Values(scan.mzs))
    /\ scan.sorted_by = "intensities" => NonIncreasing(Values(scan.intensities))

(* C3: sort_mz(); sort_intensity(); sort_mz() yields an mzs array          *)
(* element-wise identical to the one right after the first sort_mz().      *)
C3_SortRoundTrip == rt.stage = 3 => Values(scan.mzs) = rt.mzs

(* C3's case: the three calls have been made on a scan whose m/z order     *)
(* differs from its intensity order and whose m/z values differ.           *)
C3_Witness ==
    /\ rt.stage = 3
    /\ Permuted(scan)
    /\ \E i, j \in 1..Len(scan.mzs) : scan.mzs[i].v # scan.mzs[j].v

(* C4: every query returns with the scan in the sort order it had when     *)
(* the query was called: no change of sorted_by or of the array order      *)
(* across the call.                                                        *)
C4_QueryKeepsOrder ==
    [][op' \in QueryOps =>
        /\ scan'.sorted_by = scan.sorted_by
        /\ scan'.mzs = scan.mzs
        /\ scan'.intensities = scan.intensities]_vars

(* The positions of the peaks of s within tolerance of mz.                 *)
PeaksNear(s, mz) ==
    { k \in 1..Len(s.mzs) : match(s.mzs[k].v, mz, s.tolerance, 1) }

(* C14: called on a scan in intensity order, mz_lookup(mz) returns the     *)
(* index of a peak within tolerance of mz whenever there is such a peak,   *)
(* the peak of lowest m/z included, and None only when there is none;      *)
(* has_mz(mz) is true if and only if there is such a peak.                 *)
C14_MzLookupFindsPeak ==
    [][\A mz \in 1..MaxMz :
        /\ ( /\ scan.sorted_by = "intensities"
             /\ op' = "mz_lookup"
             /\ scan' = mz_lookup(scan, mz)[1]
             /\ ret' = mz_lookup(scan, mz)[2] )
                => /\ ret' = Nothing <=> PeaksNear(scan, mz) = {}
                   /\ ret' # Nothing => (ret'[1] + 1) \in PeaksNear(scan', mz)
        /\ ( /\ scan.sorted_by = "intensities"
             /\ op' = "has_mz"
             /\ scan' = has_mz(scan, mz)[1]
             /\ ret' = Some(has_mz(scan, mz)[2]) )
                => (ret'[1] <=> PeaksNear(scan, mz) # {})]_vars

(* The m/z has_fragment looks up for a row of the database: the mass of    *)
(* the fragment, for a neutral loss the precursor (of the adduct view, if  *)
(* an adduct is given) minus the mass.                                     *)
TargetMz(s, row, ad) ==
    IF row.charge # 0 THEN row.mz
    ELSE IF ad = None THEN s.precursor - row.mz
    ELSE fake_precursor(s.precursor, ad) - row.mz

(* C15: has_fragment(name) returns None if and only if the fragment        *)
(* database has no row of that name; for a name of the database whose m/z  *)
(* (for a neutral loss: precursor minus mass) is within tolerance of no    *)
(* peak it returns False.                                                  *)
C15_HasFragmentTriState ==
    op = "has_fragment" =>
        LET frag == by_name(argv[1])
        IN  /\ ret = Nothing <=> frag = Nothing
            /\ ( /\ frag # Nothing
                 /\ PeaksNear(scan, TargetMz(scan, frag[1], argv[2])) = {} )
                    => ret = Some(FALSE)

C15_Witness ==
    /\ op = "has_fragment"
    /\ by_name(argv[1]) # Nothing
    /\ by_name(argv[1])[1].charge = 0
    /\ PeaksNear(scan, TargetMz(scan, by_name(argv[1])[1], argv[2])) = {}
    /\ PeaksNear(scan, by_name(argv[1])[1].mz) # {}
    /\ ret = Some(FALSE)

(* The positions of the peaks of highest intensity.                        *)
MostAbundant(s) ==
    { k \in 1..Len(s.mzs) :
        \A j \in 1..Len(s.mzs) : s.intensities[k].v >= s.intensities[j].v }

(* C16: in every reachable state of the scan, in either sort order,        *)
(* most_abundant_mz() returns the m/z of a peak of highest intensity, and  *)
(* most_abundant_fragment_is(name), for a name of the database, is true    *)
(* if and only if the peak of highest intensity is within tolerance of     *)
(* the m/z of that fragment.                                               *)
C16_MostAbundantIsHighest ==
    /\ op = "most_abundant_mz" =>
            \E k \in MostAbundant(scan) : ret[1] = scan.mzs[k].v
    /\ (op = "most_abundant_fragment_is" /\ by_name(argv[1]) # Nothing) =>
            LET near == PeaksNear(scan,
                            TargetMz(scan, by_name(argv[1])[1], argv[2]))
            IN  /\ ret = Some(TRUE) => MostAbundant(scan) \cap near # {}
                /\ MostAbundant(scan) \subseteq near => ret = Some(TRUE)

----------------------------------------------------------------------------
(* The identifiers: AbstractMS2Identifier and five of its subclasses       *)
(* (FA_Negative, DAG_Positive, PE_Negative, Cer_Negative, Cer_Positive).   *)
(*                                                                         *)
(* An identifier reads its scan only through queries.  self.scn holds the  *)
(* answers of one scan to these queries for the identifier's record:       *)
(*   has_fragment            the fragment names present in the scan        *)
(*   chain_combinations      how many combinations confirm_chains_explicit *)
(*                           gets from Scan.chain_combinations             *)
(*   missing_chain           how many combinations Scan.missing_chain      *)
(*                           yields over the missing positions             *)
(*   heads                   the values of head for which                  *)
(*                           has_chain_combinations(rec, head) is true     *)
(*   chain_among_most_abundant, chain_fragment_type_is,                    *)
(*   has_chain_fragment_type the answers to these queries as called        *)
(*   matching                how many combinations                         *)
(*                           Scan.matching_chain_combinations yields for   *)
(*                           the chain_param of PE_Negative                *)
(*   d_dh, hydroxyacyl       has_chain_combination for the chain_param of  *)
(*                           sphingosine_d_dh and of fatty_acyl            *)
(*   chain_types             the fragment types for which the chain        *)
(*                           fragment queries of Cer_Positive answer true  *)

MaxCombs == 2

MaxRuns == 2

(* int(np.round(num / den)): rounds half to even.                          *)
RoundHalfEven(num, den) ==
    LET n == IF den < 0 THEN -num ELSE num
        d == Abs(den)
        q == n \div d
        r == n % d
    IN  IF 2 * r < d THEN q
        ELSE IF 2 * r > d THEN q + 1
        ELSE IF q % 2 = 0 THEN q ELSE q + 1

(* The records the identifiers are created for: the class the dispatch     *)
(* table gives for the headgroup, the headgroup, the number of chains of   *)
(* the chainsum, the sphingoid base type of its first chain and the        *)
(* number of hydroxyl groups of its second chain.                          *)
IdRecords ==
    { [cls |-> "AbstractMS2Identifier", hg |-> [main |-> "PC", sub |-> <<>>],
       nchains |-> 2, sph |-> "", oh |-> 0],
      [cls |-> "FA_Negative", hg |-> [main |-> "FA", sub |-> <<>>],
       nchains |-> 1, sph |-> "", oh |-> 0],
      [cls |-> "DAG_Positive", hg |-> [main |-> "DAG", sub |-> <<>>],
       nchains |-> 2, sph |-> "", oh |-> 0],
      [cls |-> "PE_Negative", hg |-> [main |-> "PE", sub |-> <<>>],
       nchains |-> 2, sph |-> "", oh |-> 0] }
    \cup
    { [cls |-> "Cer_Negative", hg |-> [main |-> "Cer", sub |-> sub],
       nchains |-> 2, sph |-> sph, oh |-> oh] :
        sub \in {<<>>, <<"1P">>}, sph \in {"d", "DH"}, oh \in {0, 1} }
    \cup
    { [cls |-> "Cer_Positive", hg |-> [main |-> "Cer", sub |-> <<>>],
       nchains |-> 2, sph |-> "DH", oh |-> 0] }

cer_nl ==
    { "NL H2O (NL 18.0106)", "NL 2xH2O (NL 36.0211)",
      "NL C+H2O (NL 30.0106)", "NL CH2+H2O (NL 32.0262)",
      "NL C+2xH2O (NL 48.0211)", "NL C+3xH2O (66.0455)" }

NoEvidence ==
    [ has_fragment |-> {}, chain_combinations |-> 0, missing_chain |-> 0,
      heads |-> {}, chain_among_most_abundant |-> FALSE,
      chain_fragment_type_is |-> FALSE, has_chain_fragment_type |-> FALSE,
      matching |-> 0, d_dh |-> FALSE, hydroxyacyl |-> FALSE,
      chain_types |-> {} ]

(* The fragment types sphingosine_dh of Cer_Positive asks for.             *)
sph_dh_types ==
    { "Sph-H2O+H", "FA+NH2-O", "Sph-2xH2O+H", "Sph-C-O-H2O-H", "Sph+H",
      "Sph-C-O-H2O-NH" }

(* The answers a scan can give for a record.  A query restricted to the    *)
(* head of the scan or to fragment types yields a subset of what the       *)
(* unrestricted chain_combinations yields.                                 *)
Evidence(rec) ==
    CASE rec.cls = "AbstractMS2Identifier" ->
            { [NoEvidence EXCEPT !.chain_combinations = n,
                                 !.missing_chain = m] :
                n \in 0..MaxCombs, m \in 0..MaxCombs }
      [] rec.cls = "FA_Negative" ->
            { [NoEvidence EXCEPT !.chain_combinations = n,
                                 !.chain_among_most_abundant = (n > 0)] :
                n \in 0..1 }
      [] rec.cls = "DAG_Positive" ->
            { e \in { [NoEvidence EXCEPT !.chain_combinations = n,
                                         !.heads = h] :
                        n \in 0..MaxCombs, h \in {{}, {10}, {6, 10}} } :
                e.chain_combinations = 0 => e.heads = {} }
      [] rec.cls = "PE_Negative" ->
            { [NoEvidence EXCEPT !.chain_combinations = n,
                                 !.matching = n,
                                 !.chain_fragment_type_is = t,
                                 !.has_fragment = f] :
                n \in 0..MaxCombs, t \in BOOLEAN,
                f \in SUBSET {"PE [P+E] (140.0118)",
                              "PE [G+P+E] (178.0275)"} }
      [] rec.cls = "Cer_Positive" ->
            { [NoEvidence EXCEPT !.chain_combinations = n,
                                 !.missing_chain = m,
                                 !.chain_types = t,
                                 !.has_fragment = f] :
                n \in 0..MaxCombs, m \in 0..MaxCombs,
                t \in {{}, {"Sph-H2O+H"}, sph_dh_types},
                f \in SUBSET {"NL [H2O] (NL 18.0106)",
                              "[C2+NH2+O] (60.0444)",
                              "NL [Hexose] (NL 180.06)"} }
      [] OTHER ->
            { [NoEvidence EXCEPT !.chain_combinations = n,
                                 !.d_dh = n > 0 /\ b[1],
                                 !.hydroxyacyl = n > 0 /\ rec.oh = 1 /\ b[2],
                                 !.has_chain_fragment_type =
                                        rec.hg.sub # <<>> /\ b[3],
                                 !.has_fragment = f] :
                n \in 0..MaxCombs, b \in BOOLEAN \X BOOLEAN \X BOOLEAN,
                f \in SUBSET {"NL H2O (NL 18.0106)",
                              "NL C+H2O (NL 30.0106)",
                              "Cer1P/PI phosphate (96.9696)"} }

(* Scan.has_fragment as the identifiers use it: a truth value.             *)
has_fragment(scn, name) == name \in scn.has_fragment

(* Scan.has_chain_combinations(rec, head = head); head = 0 for no head.    *)
has_chain_combinations(scn, head) ==
    IF head = 0 THEN scn.chain_combinations > 0 ELSE head \in scn.heads

(* AbstractMS2Identifier.__init__ with the arguments each class passes.    *)
NewIdentifier(rec, scn, explicit_and_implicit) ==
    [ cls |-> rec.cls,
      rec |-> rec,
      scn |-> scn,
      score |-> 0,
      max_score |-> 0,
      missing_chains |->
            CASE rec.cls = "AbstractMS2Identifier" ->
                    [p \in 1..rec.nchains |-> p - 1]
              [] rec.cls = "Cer_Positive" ->
                    IF rec.nchains > 1 THEN <<1>> ELSE <<>>
              [] OTHER -> <<>>,
      explicit_and_implicit |-> explicit_and_implicit,
      must_have_chains |-> TRUE,
      scores |-> {},
      sph_scores |-> <<>>,
      nacyl |-> rec.nchains > 1,
      pc |-> "new",
      k |-> 0,
      chains_confirmed |-> FALSE,
      added |-> <<0, 0>>,
      run |-> 0 ]

(* AbstractMS2Identifier.percent_score                                     *)
percent_score(self) ==
    IF self.max_score # 0
        THEN Max(RoundHalfEven(self.score * 100, self.max_score), 0)
        ELSE 200

(* Cer_Negative.cer: <<score, max_score>>.                                 *)
cer(self) ==
    << 3 * Cardinality(cer_nl \cap self.scn.has_fragment)
         + (IF has_chain_combinations(self.scn, 0) THEN 5 ELSE 0),
       23 >>

(* Cer_Negative.cer1p: <<score, max_score, must_have_chains>>.  The record *)
(* is a ceramide, so the branch for a headgroup 'Sph' is not taken.        *)
cer1p(self) ==
    LET phosphate ==
            \/ has_fragment(self.scn, "Cer1P/PIP/PL metaphosphate (78.9591)")
            \/ has_fragment(self.scn, "Cer1P/PI phosphate (96.9696)")
        score ==
            IF phosphate
                THEN 20
                     + (IF has_fragment(self.scn, "NL H2O (NL 18.0106)")
                            THEN 10 ELSE 0)
                     + (IF self.scn.has_chain_fragment_type THEN 10 ELSE 0)
                ELSE 0
    IN  << score, 70, IF phosphate THEN FALSE ELSE self.must_have_chains >>

(* Cer_Negative.sphingosine_d_dh                                           *)
sphingosine_d_dh(self) == << IF self.scn.d_dh THEN 20 ELSE 0, 20 >>

(* Cer_Negative.sphingosine_d                                              *)
sphingosine_d(self) ==
    << 0 + sphingosine_d_dh(self)[1]
         + (IF has_fragment(self.scn, "NL C+H2O (NL 30.0106)") THEN 20 ELSE 0),
       20 + sphingosine_d_dh(self)[2] >>

(* Cer_Negative.sphingosine_dh                                             *)
sphingosine_dh(self) ==
    << 0 + sphingosine_d_dh(self)[1]
         - (IF has_fragment(self.scn, "NL C+H2O (NL 30.0106)") THEN 20 ELSE 0),
       -20 + sphingosine_d_dh(self)[2] >>

(* The neutral losses Cer_Positive.non_hex asks for.                       *)
non_hex_nl ==
    { "NL [Hexose-H2O] (NL 162.05)", "NL [Hexose] (NL 180.06)",
      "NL [Hexose+H2O] (NL 198.07)", "NL [2xHexose] (NL 342.1162)",
      "NL [2xHexose+H2O] (NL 360.1268)", "NL [2xHexose-H2O] (NL 324.1056)",
      "NL [2xHexose+O] (NL 358.1111)", "NL [2xHexose+C] (NL 372.1268)",
      "NL [S] (NL 79.9568)", "NL [S+H2O] (97.9674)",
      "NL [Hexose+SO3] (NL 242.100)", "NL [Hexose+SO3+H2O] (NL 260.0202)",
      "NL [Hexose+SO3+2xH2O] (NL 278.0308)",
      "NL [2xHexose+SO3] (NL 404.0625)",
      "NL [2xHexose+SO3+H2O] (NL 422.0730)",
      "NL [2xHexose+SO3+2xH2O] (NL 440.0836)" }

(* Cer_Positive.non_hex: 5 off for every hexose or sulphate neutral loss.  *)
non_hex(self) ==
    << 0 - 5 * Cardinality(self.scn.has_fragment \cap non_hex_nl), 0 >>

(* Cer_Positive.cer                                                        *)
Cer_Positive_cer(self) == << 0 + non_hex(self)[1], 0 + non_hex(self)[2] >>

(* Cer_Positive.sphingosine_dh                                             *)
Cer_Positive_sphingosine_dh(self) ==
    << 0 + (IF has_fragment(self.scn, "[C2+NH2+O] (60.0444)")
                THEN 1 ELSE 0)
         + (IF ~has_fragment(self.scn, "NL [C+2xH2O] (NL 48.0211)")
                THEN 1 ELSE 0)
         + 3 * Cardinality(self.scn.chain_types \cap sph_dh_types),
       20 >>

(* sphingosine_base of Cer_Negative and of Cer_Positive:                   *)
(* <<score, max_score, sph_scores>>, the scores of a base type computed    *)
(* once and then taken from the cache.                                     *)
sphingosine_base(self, sph) ==
    LET fresh == CASE self.cls = "Cer_Positive" /\ sph = "DH" ->
                        Cer_Positive_sphingosine_dh(self)
                   [] self.cls = "Cer_Negative" /\ sph = "d" ->
                        sphingosine_d(self)
                   [] self.cls = "Cer_Negative" /\ sph = "DH" ->
                        sphingosine_dh(self)
                   [] OTHER -> <<0, 0>>
        cached == { e \in {self.sph_scores[j] : j \in DOMAIN self.sph_scores} :
                        e.sph = sph }
    IN  IF cached = {}
            THEN << fresh[1], fresh[2],
                    Append(self.sph_scores,
                           [sph |-> sph, score |-> fresh[1],
                            max_score |-> fresh[2]]) >>
            ELSE LET e == CHOOSE e \in cached : TRUE
                 IN  << e.score, e.max_score, self.sph_scores >>

(* fatty_acyl for a chain with oh hydroxyl groups: Cer_Negative scores a   *)
(* hydroxyacyl chain, Cer_Positive only with the adduct [M-H2O+H]+, which  *)
(* an identifier created without adduct does not have.                     *)
fatty_acyl(self, oh) ==
    IF self.cls = "Cer_Negative" /\ oh = 1
        THEN << IF self.scn.hydroxyacyl THEN 30 ELSE 0, 30 >>
        ELSE << 0, 0 >>

(* AbstractMS2Identifier.confirm_class: the score is set to zero, the      *)
(* class method of the headgroup (of Cer_Negative: 'Cer') adds its score   *)
(* and its maximum.                                                        *)
base_confirm_class(self) ==
    LET s0 == [self EXCEPT !.score = 0]
    IN  IF self.cls = "Cer_Negative" /\ self.rec.hg.main = "Cer"
            THEN [s0 EXCEPT !.score = @ + cer(s0)[1],
                            !.max_score = @ + cer(s0)[2]]
            ELSE s0

(* AbstractMS2Identifier.confirm_subclass with the subclass methods of     *)
(* Cer_Negative ('1P') and of Cer_Positive ('empty' for a headgroup        *)
(* without subclass): a subclass is scored unless self.scores has it.      *)
confirm_subclass(self) ==
    CASE /\ self.cls = "Cer_Negative"
         /\ self.rec.hg.sub = <<"1P">>
         /\ "1P" \notin self.scores ->
            [self EXCEPT !.scores = @ \cup {"1P"},
                         !.score = @ + cer1p(self)[1],
                         !.max_score = @ + cer1p(self)[2],
                         !.must_have_chains = cer1p(self)[3]]
      [] /\ self.cls = "Cer_Positive"
         /\ self.rec.hg.sub = <<>>
         /\ "empty" \notin self.scores ->
            [self EXCEPT !.scores = @ \cup {"empty"},
                         !.score = @ + Cer_Positive_cer(self)[1],
                         !.max_score = @ + Cer_Positive_cer(self)[2]]
      [] OTHER -> self

(* Cer_Positive.confirm_class                                              *)
Cer_Positive_confirm_class(self) ==
    LET s0 == base_confirm_class(self)
    IN  confirm_subclass(
            [s0 EXCEPT !.max_score = @ + 2,
                       !.score = @ + Cardinality(self.scn.has_fragment \cap
                                    {"NL [H2O] (NL 18.0106)",
                                     "NL [2xH2O] (NL 36.0211)"})])

(* FA_Negative.confirm_class                                               *)
FA_Negative_confirm_class(self) ==
    [self EXCEPT !.max_score = 10,
                 !.score = IF self.scn.chain_among_most_abundant
                                THEN 10 ELSE @]

(* DAG_Positive.confirm_class                                              *)
DAG_Positive_confirm_class(self) ==
    [self EXCEPT !.max_score = 6,
                 !.score = @
                    + (IF has_chain_combinations(self.scn, 10) THEN 4 ELSE 0)
                    + (IF has_chain_combinations(self.scn, 6) THEN 2 ELSE 0)]

(* AbstractMS2Identifier.matching_chain_combinations with the default      *)
(* score_method: the score is added to the score and to the maximum.       *)
matching_chain_combinations(self) ==
    LET score == Min(self.scn.matching, 3) * 2
    IN  [self EXCEPT !.score = @ + score, !.max_score = @ + score]

(* PE_Negative.confirm_class                                               *)
PE_Negative_confirm_class(self) ==
    LET s0 == [self EXCEPT !.max_score = @ + 11]
    IN  IF /\ self.scn.chain_fragment_type_is
           /\ has_fragment(self.scn, "PE [P+E] (140.0118)")
            THEN matching_chain_combinations(
                    [s0 EXCEPT !.score = @ + 5 + 3 * Cardinality(
                        self.scn.has_fragment \cap
                            {"PE [G+P+E-H2O] (196.0380)",
                             "PE [G+P+E] (178.0275)"})])
            ELSE s0

(* confirm_class of the identifier's class.                                *)
confirm_class(self) ==
    CASE self.cls = "FA_Negative" -> FA_Negative_confirm_class(self)
      [] self.cls = "DAG_Positive" -> DAG_Positive_confirm_class(self)
      [] self.cls = "PE_Negative" -> PE_Negative_confirm_class(self)
      [] self.cls = "Cer_Negative" ->
            confirm_subclass(base_confirm_class(self))
      [] self.cls = "Cer_Positive" -> Cer_Positive_confirm_class(self)
      [] OTHER -> base_confirm_class(self)

(* The MS2Identity that identify() builds at a yield.                      *)
MS2Identity(self, chains) ==
    [ score |-> Max(self.score, 0),
      max_score |-> self.max_score,
      score_pct |-> percent_score(self),
      hg |-> self.rec.hg,
      chains |-> chains,
      cls |-> self.cls,
      run |-> self.run ]

(* AbstractMS2Identifier.confirm_chains_explicit: the combinations of     *)
(* Scan.chain_combinations, in the order it yields them.                   *)
base_confirm_chains_explicit(self) ==
    [j \in 1..self.scn.chain_combinations |-> <<"chain_combinations", j>>]

(* AbstractMS2Identifier.confirm_chains_implicit: the combinations of      *)
(* Scan.missing_chain over self.missing_chains; none without missing       *)
(* positions.                                                              *)
confirm_chains_implicit(self) ==
    IF Len(self.missing_chains) > 0
        THEN [j \in 1..self.scn.missing_chain |-> <<"missing_chain", j>>]
        ELSE <<>>

(* The combinations the explicit loop of identify() iterates:              *)
(* confirm_chains_explicit, which in Cer_Negative and Cer_Positive chains  *)
(* the explicit and the implicit combinations of the base class.  The      *)
(* sphingoid base type of a combination is the one of the record, so none  *)
(* is filtered out.                                                        *)
confirm_chains_explicit(self) ==
    IF self.cls \in {"Cer_Negative", "Cer_Positive"}
        THEN base_confirm_chains_explicit(self) \o confirm_chains_implicit(self)
        ELSE base_confirm_chains_explicit(self)

chainless_any_score(self) ==
    /\ ~self.chains_confirmed
    /\ ~self.must_have_chains

(* The last condition of identify(): the identity without chains is        *)
(* yielded.                                                                *)
chainless(self) ==
    /\ ~self.chains_confirmed
    /\ ~self.must_have_chains
    /\ self.score # 0

(* confirm_chains_explicit of the ceramides up to its yield: the scores of *)
(* the sphingoid base and of the fatty acyl are added for the duration     *)
(* of the yield.  Other classes yield the combination as it is.            *)
before_yield(self) ==
    IF self.cls \in {"Cer_Negative", "Cer_Positive"}
        THEN LET sph == sphingosine_base(self, self.rec.sph)
                 fa == IF self.nacyl
                            THEN fatty_acyl(self, self.rec.oh) ELSE <<0, 0>>
             IN  [self EXCEPT !.sph_scores = sph[3],
                              !.score = @ + sph[1] + fa[1],
                              !.max_score = @ + sph[2] + fa[2],
                              !.added = <<sph[1] + fa[1], sph[2] + fa[2]>>]
        ELSE self

(* ... and from its yield on: the added scores are subtracted.             *)
after_yield(self) ==
    [self EXCEPT !.score = @ - self.added[1],
                 !.max_score = @ - self.added[2],
                 !.added = <<0, 0>>]

----------------------------------------------------------------------------
(* The identifier state machine: identify() is a generator, advanced from  *)
(* one yield to the next; run to its end it can be called again on the     *)
(* same object.                                                            *)

NoScan == [sorted_by |-> None]

IdentifyFrame == UNCHANGED <<scan, op, argv, ret, rt, solver, feature, db, mgf, sorters>>

InitIdentify ==
    /\ scan = NoScan
    /\ op = "identify"
    /\ argv = <<>>
    /\ ret = Nothing
    /\ rt = RtReset
    /\ solver = NoSolver
    /\ feature = NoFeature
    /\ NoOthers
    /\ emitted = <<>>
    /\ \E rec \in IdRecords :
        \E scn \in Evidence(rec) :
            \E explicit_and_implicit \in
                    (IF rec.cls = "AbstractMS2Identifier"
                        THEN BOOLEAN ELSE {FALSE}) :
                idf = NewIdentifier(rec, scn, explicit_and_implicit)

(* identify() from its call to the head of the explicit loop.              *)
Identify ==
    /\ idf.pc \in {"new", "done"}
    /\ idf.run < MaxRuns
    /\ idf' = [confirm_class(idf) EXCEPT !.pc = "explicit", !.k = 0,
                                         !.chains_confirmed = FALSE,
                                         !.run = @ + 1]
    /\ UNCHANGED emitted
    /\ IdentifyFrame

ExplicitYield ==
    /\ idf.pc = "explicit"
    /\ idf.k < Len(confirm_chains_explicit(idf))
    /\ idf' = [before_yield(idf) EXCEPT !.pc = "explicit_yield"]
    /\ emitted' = Append(emitted,
                    MS2Identity(before_yield(idf),
                                confirm_chains_explicit(idf)[idf.k + 1]))
    /\ IdentifyFrame

ExplicitResume ==
    /\ idf.pc = "explicit_yield"
    /\ idf' = [after_yield(idf) EXCEPT !.pc = "explicit", !.k = @ + 1,
                                       !.chains_confirmed = TRUE]
    /\ UNCHANGED emitted
    /\ IdentifyFrame

ExplicitDone ==
    /\ idf.pc = "explicit"
    /\ idf.k = Len(confirm_chains_explicit(idf))
    /\ idf' = [idf EXCEPT !.k = 0,
                          !.pc = IF \/ ~idf.chains_confirmed
                                    \/ idf.explicit_and_implicit
                                    THEN "implicit" ELSE "chainless"]
    /\ UNCHANGED emitted
    /\ IdentifyFrame

ImplicitYield ==
    /\ idf.pc = "implicit"
    /\ idf.k < Len(confirm_chains_implicit(idf))
    /\ idf' = [idf EXCEPT !.pc = "implicit_yield"]
    /\ emitted' = Append(emitted,
                    MS2Identity(idf, confirm_chains_implicit(idf)[idf.k + 1]))
    /\ IdentifyFrame

ImplicitResume ==
    /\ idf.pc = "implicit_yield"
    /\ idf' = [idf EXCEPT !.pc = "implicit", !.k = @ + 1,
                          !.chains_confirmed = TRUE]
    /\ UNCHANGED emitted
    /\ IdentifyFrame

ImplicitDone ==
    /\ idf.pc = "implicit"
    /\ idf.k = Len(confirm_chains_implicit(idf))
    /\ idf' = [idf EXCEPT !.k = 0, !.pc = "chainless"]
    /\ UNCHANGED emitted
    /\ IdentifyFrame

(* The end of identify(): the identity without chains, if any.             *)
Chainless ==
    /\ idf.pc = "chainless"
    /\ idf' = [idf EXCEPT !.pc = "done"]
    /\ emitted' =
            IF chainless(idf)
                THEN Append(emitted, MS2Identity(idf, <<>>))
                ELSE emitted
    /\ IdentifyFrame

NextIdentify ==
    \/ Identify
    \/ ExplicitYield
    \/ ExplicitResume
    \/ ExplicitDone
    \/ ImplicitYield
    \/ ImplicitResume
    \/ ImplicitDone
    \/ Chainless

SpecIdentify == InitIdentify /\ [][NextIdentify]_vars

----------------------------------------------------------------------------
(* Properties of the identifiers (checked under SpecIdentify).             *)

Emitted == {emitted[j] : j \in 1..Len(emitted)}

(* C5: every MS2Identity emitted by identify() with max_score > 0 has      *)
(* 0 <= score_pct <= 100.                                                  *)
C5_ScorePctBounds ==
    \A id \in Emitted :
        id.max_score > 0 => (0 <= id.score_pct /\ id.score_pct <= 100)

(* C6: for every emitted MS2Identity, score_pct is 200 if and only if      *)
(* max_score is 0.                                                         *)
C6_SentinelIffZeroMax ==
    \A id \in Emitted : (id.score_pct = 200) <=> (id.max_score = 0)

(* C11: an identity built from an implicit (missing-chain) combination is  *)
(* emitted only if Scan.chain_combinations found no explicit combination   *)
(* for the record or the identifier was created with                       *)
(* explicit_and_implicit.                                                  *)
C11_ImplicitOnlyWithoutExplicit ==
    \A id \in Emitted :
        (id.chains # <<>> /\ id.chains[1] = "missing_chain")
            => \/ idf.scn.chain_combinations = 0
               \/ idf.explicit_and_implicit

(* The positions in emitted of the identities of run r without chains and  *)
(* with chains.                                                            *)
ChainlessOfRun(r) ==
    { j \in 1..Len(emitted) : emitted[j].run = r /\ emitted[j].chains = <<>> }

ResolvedOfRun(r) ==
    { j \in 1..Len(emitted) : emitted[j].run = r /\ emitted[j].chains # <<>> }

(* C12: a finished run of identify() has emitted an identity without       *)
(* chains exactly when it emitted no identity with chains, must_have_chains *)
(* is false and the score is nonzero; a run emits at most one identity     *)
(* without chains and never both one without and one with chains.          *)
C12_ChainlessExactlyWhen ==
    /\ idf.pc = "done" =>
            ( ChainlessOfRun(idf.run) # {}
                <=> /\ ResolvedOfRun(idf.run) = {}
                    /\ ~idf.must_have_chains
                    /\ idf.score # 0 )
    /\ \A r \in 1..idf.run :
            /\ Cardinality(ChainlessOfRun(r)) <= 1
            /\ ChainlessOfRun(r) = {} \/ ResolvedOfRun(r) = {}

C12_Witness ==
    /\ idf.pc = "done"
    /\ \E j \in ChainlessOfRun(idf.run) : emitted[j].score > 0


(* The first run of identify() of a new identifier for the record rec on   *)
(* the scan scn yields an identity with the chain combination chains.      *)
YieldsInFirstRun(rec, scn, explicit_and_implicit, chains) ==
    LET self == confirm_class(NewIdentifier(rec, scn, explicit_and_implicit))
        explicit == confirm_chains_explicit(self)
        implicit == confirm_chains_implicit(self)
    IN  \/ \E k \in 1..Len(explicit) : explicit[k] = chains
        \/ /\ Len(explicit) = 0 \/ explicit_and_implicit
           /\ \E k \in 1..Len(implicit) : implicit[k] = chains

(* The max_score of the identities with chains of that run.                *)
MaxScoreInFirstRun(rec, scn, explicit_and_implicit) ==
    before_yield(
        confirm_class(NewIdentifier(rec, scn, explicit_and_implicit))).max_score

(* C28: the max_score of an identity a new identifier emits for a record   *)
(* and a chain combination is the same on every scan on which the          *)
(* identifier of that record emits the combination: it does not depend on  *)
(* which fragments the scan has.                                           *)
C28_MaxScoreSameForEveryScan ==
    \A j \in 1..Len(emitted) :
        (emitted[j].run = 1 /\ emitted[j].chains # <<>>) =>
            \A scn2 \in Evidence(idf.rec) :
                YieldsInFirstRun(idf.rec, scn2, idf.explicit_and_implicit,
                                 emitted[j].chains)
                    => MaxScoreInFirstRun(idf.rec, scn2,
                                          idf.explicit_and_implicit)
                            = emitted[j].max_score

(* The identities the run r of identify() emitted, in their order: the    *)
(* chains and the scores of each.                                          *)
IdentitiesOfRun(r) ==
    LET ofrun == SelectSeq(emitted, LAMBDA id : id.run = r)
    IN  [j \in 1..Len(ofrun) |->
            [chains |-> ofrun[j].chains, score |-> ofrun[j].score,
             max_score |-> ofrun[j].max_score,
             score_pct |-> ofrun[j].score_pct]]

(* C30: when identify() has run to its end a second time on the same       *)
(* identifier, the second run has emitted the same identities as the       *)
(* first, with the same score, max_score and score_pct.                    *)
C30_SecondRunSameAsFirst ==
    (idf.pc = "done" /\ idf.run >= 2) =>
        IdentitiesOfRun(2) = IdentitiesOfRun(1)

----------------------------------------------------------------------------
(* The chain combination solver: frags_for_positions, chain_combinations,  *)
(* missing_chain and the helpers they call.                                *)

(* The settings a Scan reads at construction (lipyd.settings).             *)
check_ratio_g == TRUE

check_ratio_s == FALSE

(* chain_fragment_instensity_ratios_logbase, the ratio 3 / 2.              *)
iratio_logbase == <<3, 2>>

(* lipproc.ChainAttr                                                       *)
ChainAttr(sph, ether, oh) == [sph |-> sph, ether |-> ether, oh |-> oh]

(* lipproc.Chain                                                           *)
Chain(c, u, typ, attr) == [c |-> c, u |-> u, typ |-> typ, attr |-> attr]

(* A database record: the headgroup and the chain summary, with one type   *)
(* and one attribute record for each chain position.                       *)
LipidRecord(main, c, u, typ, sph) ==
    [ hg |-> [main |-> main, sub |-> <<>>],
      chainsum |-> [c |-> c, u |-> u, typ |-> typ,
                    attr |-> [p \in 1..Len(typ) |->
                                ChainAttr(IF p = 1 THEN sph ELSE "",
                                          FALSE, <<>>)]] ]

(* The MS1 records the solver is asked about.                              *)
RecordDb ==
    { LipidRecord("FA", 1, 0, <<"FA">>, ""),
      LipidRecord("DAG", 3, 1, <<"FA", "FA">>, ""),
      LipidRecord("DAG", 4, 2, <<"FA", "FA">>, ""),
      LipidRecord("DAG", 5, 0, <<"FA", "FA">>, ""),
      LipidRecord("Cer", 3, 0, <<"Sph", "FA">>, "DH"),
      LipidRecord("Cer", 3, 1, <<"Sph", "FA">>, "d"),
      LipidRecord("TAG", 4, 1, <<"FA", "FA", "FA">>, "") }

(* len(chainsum): the number of chain positions.                           *)
ChainSumLen(chainsum) == Len(chainsum.typ)

(* FragmentDatabaseAggregator.get_constraints: the constraints of a        *)
(* fragment type, () for a type without an entry.  hg = "" and             *)
(* chaintype = "" stand for None.                                          *)
get_constraints(fragtype) ==
    CASE fragtype = "FA-H" -> << [hg |-> "", chaintype |-> "FA"] >>
      [] fragtype = "Sph-H" -> << [hg |-> "Cer", chaintype |-> "Sph"] >>
      [] OTHER -> <<>>

(* lipproc.match_constraints(record, constraints)[1]: the chain positions  *)
(* (0-based) a fragment of these constraints can originate from; no        *)
(* constraint at all matches any position.                                 *)
match_constraints(rec, constr) ==
    LET K == ChainSumLen(rec.chainsum)
    IN  IF constr = <<>>
            THEN 0..(K - 1)
            ELSE { ci \in 0..(K - 1) :
                    \E j \in 1..Len(constr) :
                        /\ constr[j].hg \in {"", rec.hg.main}
                        /\ constr[j].chaintype
                                \in {"", rec.chainsum.typ[ci + 1]} }

(* Scan.positions_for_frag_type                                            *)
positions_for_frag_type(rec, frag_type) ==
    match_constraints(rec, get_constraints(frag_type))

(* common.iterator_insert(full_length, insert): the pairs (index of the    *)
(* chain, index among the fragments), -1 for the None of the inserted      *)
(* position; insert = -1 stands for None.                                  *)
iterator_insert(full_length, insert) ==
    [k \in 1..full_length |->
        IF k - 1 = insert THEN <<k - 1, -1>>
        ELSE IF insert >= 0 /\ k - 1 > insert THEN <<k - 1, k - 2>>
        ELSE <<k - 1, k - 1>>]

RECURSIVE SortedSeq(_)
SortedSeq(S) ==
    IF S = {} THEN <<>>
    ELSE LET m == CHOOSE x \in S : \A y \in S : x <= y
         IN  <<m>> \o SortedSeq(S \ {m})

(* itertools.product of a sequence of sequences, in its order.             *)
RECURSIVE product(_)
product(buckets) ==
    IF buckets = <<>> THEN << <<>> >>
    ELSE LET rest == product(Tail(buckets))
         IN  Flatten([i \in 1..Len(Head(buckets)) |->
                        [j \in 1..Len(rest) |-> <<Head(buckets)[i]>> \o rest[j]]])

(* The values of a dict in the order of its sorted keys.                   *)
sorted_values(d) ==
    LET keys == SortedSeq(DOMAIN d)
    IN  [k \in 1..Len(keys) |-> d[keys[k]]]

(* Scan.build_chain_list: builds the list unless the scan has one.         *)
build_chain_list(s) ==
    IF Has(s, "chain_list")
        THEN s
        ELSE [s EXCEPT !.chain_list = _build_chain_list(s, s.annot),
                       !.attrs = @ \cup {"chain_list"}]

(* The default arguments of chain_combinations and missing_chain:          *)
(* head = 0 for None, the threshold a ratio, frag_types = <<>> for None    *)
(* and otherwise one set for each position, {} for None.                   *)
DefaultArgs ==
    [ head |-> 0, intensity_threshold |-> <<0, 1>>, frag_types |-> <<>>,
      no_intensity_check |-> FALSE ]

(* frags_for_positions as it would be if it ignored the positions of the   *)
(* fragment type and the frag_types argument.                              *)
frags_for_positions_any_type(s, rec, args) ==
    LET K == ChainSumLen(rec.chainsum)
    IN  IF s.chain_list = <<>> THEN <<>>
        ELSE [ci \in 0..(K - 1) |-> s.chain_list]

(* Scan.frags_for_positions: the dict of position -> list of fragments.    *)
(* The loop over the chain list stops at the first fragment beyond head    *)
(* or below the threshold.                                                 *)
frags_for_positions(s, rec, args) ==
    LET cl == s.chain_list
        stop == { k \in 1..Len(cl) :
                    \/ (args.head # 0 /\ cl[k].i >= args.head)
                    \/ s.inorm[cl[k].i + 1].v[1] * args.intensity_threshold[2]
                        < args.intensity_threshold[1]
                                * s.inorm[cl[k].i + 1].v[2] }
        n == IF stop = {} THEN Len(cl)
             ELSE (CHOOSE k \in stop : \A j \in stop : k <= j) - 1
        bucket(ci) ==
            SelectSeq(SubSeq(cl, 1, n), LAMBDA frag :
                /\ ci \in positions_for_frag_type(rec, frag.fragtype)
                /\ \/ args.frag_types = <<>>
                   \/ args.frag_types[ci + 1] = {}
                   \/ frag.fragtype \in args.frag_types[ci + 1])
        keys == UNION { positions_for_frag_type(rec, cl[k].fragtype) :
                            k \in 1..n }
    IN  [ci \in {ci \in keys : bucket(ci) # <<>>} |-> bucket(ci)]

(* intensity_ratios as it would be if it answered False for an intensity   *)
(* that is not positive, as MS2Scan.intensity_ratios does.                 *)
intensity_ratios_false_on_nonpositive(intensities, frag_indices) ==
    LET n == Len(intensities)
        cntr(ind) == Cardinality({k \in 1..n : frag_indices[k] = ind})
    IN  IF n = 1 THEN "True"
        ELSE IF \E k \in 1..n : intensities[k] <= 0 THEN "False"
        ELSE IF \A a, b \in 1..n :
                    a < b =>
                        intensities[a] * cntr(frag_indices[b]) * iratio_logbase[2]
                            <= iratio_logbase[1] * intensities[b]
                                    * cntr(frag_indices[a])
            THEN "True"
        ELSE "False"

(* Scan.intensity_ratios with expected = None: "ValueError" if an          *)
(* intensity is not positive, otherwise whether for every pair of the      *)
(* combination, in its order, log(first) - log(second) <= 1 holds, the     *)
(* intensities divided by the number of positions the peak fills.          *)
intensity_ratios(intensities, frag_indices) ==
    LET n == Len(intensities)
        cntr(ind) == Cardinality({k \in 1..n : frag_indices[k] = ind})
    IN  IF n = 1 THEN "True"
        ELSE IF \E k \in 1..n : intensities[k] <= 0 THEN "ValueError"
        ELSE IF \A a, b \in 1..n :
                    a < b =>
                        intensities[a] * cntr(frag_indices[b]) * iratio_logbase[2]
                            <= iratio_logbase[1] * intensities[b]
                                    * cntr(frag_indices[a])
            THEN "True"
        ELSE "False"

(* Scan._intensity_check with expected_intensities = None.                 *)
_intensity_check(frag_comb, chainsum) ==
    IF ~ \/ (chainsum.typ[1] = "Sph" /\ check_ratio_s)
         \/ (chainsum.typ[1] # "Sph" /\ check_ratio_g)
        THEN "True"
        ELSE intensity_ratios(
                [k \in 1..Len(frag_comb) |-> frag_comb[k].intensity],
                [k \in 1..Len(frag_comb) |-> frag_comb[k].i])

(* _chains_frag_comb as it would be if it put the missing chain last.      *)
_chains_frag_comb_missing_last(s, frag_comb, chainsum, missing_position, missing_chain) ==
    LET n == Len(frag_comb)
    IN  [ chains |->
            [k \in 1..ChainSumLen(chainsum) |->
                IF k <= n
                    THEN Chain(frag_comb[k].c, frag_comb[k].u,
                               frag_comb[k].chaintype,
                               ChainAttr(chainsum.attr[k].sph,
                                         frag_comb[k].chaintype = "FAL",
                                         chainsum.attr[k].oh))
                    ELSE missing_chain],
          details |->
            [k \in 1..ChainSumLen(chainsum) |->
                IF k <= n
                    THEN [rank |-> frag_comb[k].i,
                          i |-> s.inorm[frag_comb[k].i + 1].v,
                          fragtype |-> frag_comb[k].fragtype]
                    ELSE [rank |-> -1, i |-> <<>>, fragtype |-> None]] ]

(* Scan._chains_frag_comb: the chains of a fragment combination, the       *)
(* missing chain inserted at missing_position (-1 for None), and the       *)
(* details of each position: rank (the peak index), i (its normalized      *)
(* intensity) and fragtype, rank = -1 for the None of the missing chain.   *)
_chains_frag_comb(s, frag_comb, chainsum, missing_position, missing_chain) ==
    LET ii == iterator_insert(ChainSumLen(chainsum), missing_position)
    IN  [ chains |->
            [k \in 1..Len(ii) |->
                LET ichain == ii[k][1] + 1
                    ifrag == ii[k][2] + 1
                IN  IF ifrag # 0
                        THEN Chain(frag_comb[ifrag].c, frag_comb[ifrag].u,
                                   frag_comb[ifrag].chaintype,
                                   ChainAttr(chainsum.attr[ichain].sph,
                                             frag_comb[ifrag].chaintype = "FAL",
                                             chainsum.attr[ichain].oh))
                        ELSE missing_chain],
          details |->
            [k \in 1..Len(ii) |->
                LET ifrag == ii[k][2] + 1
                IN  IF ifrag # 0
                        THEN [rank |-> frag_comb[ifrag].i,
                              i |-> s.inorm[frag_comb[ifrag].i + 1].v,
                              fragtype |-> frag_comb[ifrag].fragtype]
                        ELSE [rank |-> -1, i |-> <<>>, fragtype |-> None]] ]

(* The run of a generator over the candidates: a candidate that passes     *)
(* the intensity check is yielded, one that raises ends the run.           *)
RECURSIVE generate(_, _, _, _)
generate(cands, checks, results, k) ==
    IF k > Len(cands) THEN [raised |-> None, yielded |-> <<>>]
    ELSE IF checks[k] = "ValueError"
        THEN [raised |-> "ValueError", yielded |-> <<>>]
    ELSE LET rest == generate(cands, checks, results, k + 1)
         IN  IF checks[k] = "True"
                THEN [rest EXCEPT !.yielded = <<results[k]>> \o @]
                ELSE rest

(* chain_combinations as it would be without the test of the sums.         *)
chain_combinations_no_sum(s, rec, args) ==
    LET chainsum == rec.chainsum
        frags_for_position == frags_for_positions(s, rec, args)
    IN  IF Cardinality(DOMAIN frags_for_position) # Len(chainsum.typ)
            THEN [raised |-> None, yielded |-> <<>>]
            ELSE LET cands == product(sorted_values(frags_for_position))
                 IN  generate(cands,
                        [k \in 1..Len(cands) |->
                            IF args.no_intensity_check THEN "True"
                            ELSE _intensity_check(cands[k], chainsum)],
                        [k \in 1..Len(cands) |->
                            _chains_frag_comb(s, cands[k], chainsum, -1, <<>>)],
                        1)

(* Scan.chain_combinations on a scan that has its chain list: what the     *)
(* generator yields, and the exception that ends it, if any.               *)
chain_combinations(s, rec, args) ==
    LET chainsum == rec.chainsum
        frags_for_position == frags_for_positions(s, rec, args)
    IN  IF Cardinality(DOMAIN frags_for_position) # Len(chainsum.typ)
            THEN [raised |-> None, yielded |-> <<>>]
            ELSE LET cands ==
                        SelectSeq(product(sorted_values(frags_for_position)),
                            LAMBDA frag_comb :
                                /\ SumSeq([k \in 1..Len(frag_comb) |->
                                            frag_comb[k].c]) = chainsum.c
                                /\ SumSeq([k \in 1..Len(frag_comb) |->
                                            frag_comb[k].u]) = chainsum.u)
                 IN  generate(cands,
                        [k \in 1..Len(cands) |->
                            IF args.no_intensity_check THEN "True"
                            ELSE _intensity_check(cands[k], chainsum)],
                        [k \in 1..Len(cands) |->
                            _chains_frag_comb(s, cands[k], chainsum, -1, <<>>)],
                        1)

(* missing_chain as it would be without the test of the inferred values.   *)
missing_chain_no_validity(s, rec, missing_position, args) ==
    LET chainsum == rec.chainsum
        frags_for_position == frags_for_positions(s, rec, args)
        rest == [ci \in (DOMAIN frags_for_position) \ {missing_position} |->
                    frags_for_position[ci]]
        missing(frag_comb) ==
            Chain(chainsum.c - SumSeq([k \in 1..Len(frag_comb) |->
                                            frag_comb[k].c]),
                  chainsum.u - SumSeq([k \in 1..Len(frag_comb) |->
                                            frag_comb[k].u]),
                  chainsum.typ[missing_position + 1],
                  chainsum.attr[missing_position + 1])
        cands == SelectSeq(product(sorted_values(rest)),
                    LAMBDA frag_comb :
                        ~ (ChainSumLen(chainsum) - Len(frag_comb) > 1))
    IN  IF ~Has(s, "chain_list")
            THEN [raised |-> "AttributeError", yielded |-> <<>>]
        ELSE IF missing_position >= Len(chainsum.typ)
            THEN [raised |-> "ValueError", yielded |-> <<>>]
        ELSE generate(cands,
                [k \in 1..Len(cands) |->
                    IF args.no_intensity_check THEN "True"
                    ELSE _intensity_check(cands[k], chainsum)],
                [k \in 1..Len(cands) |->
                    _chains_frag_comb(s, cands[k], chainsum,
                                      missing_position, missing(cands[k]))],
                1)

(* Scan.missing_chain: what the generator yields, and the exception that   *)
(* ends it, if any.  It reads the chain list, which a scan has only after  *)
(* build_chain_list.                                                       *)
missing_chain(s, rec, missing_position, args) ==
    LET chainsum == rec.chainsum
        frags_for_position == frags_for_positions(s, rec, args)
        rest == [ci \in (DOMAIN frags_for_position) \ {missing_position} |->
                    frags_for_position[ci]]
        missing_c(frag_comb) ==
            chainsum.c - SumSeq([k \in 1..Len(frag_comb) |-> frag_comb[k].c])
        missing_u(frag_comb) ==
            chainsum.u - SumSeq([k \in 1..Len(frag_comb) |-> frag_comb[k].u])
        cands == SelectSeq(product(sorted_values(rest)),
                    LAMBDA frag_comb :
                        /\ ~ (ChainSumLen(chainsum) - Len(frag_comb) > 1)
                        /\ ~ \/ missing_c(frag_comb) < 1
                             \/ missing_u(frag_comb) < 0
                             \/ missing_u(frag_comb) > missing_c(frag_comb) - 1)
    IN  IF ~Has(s, "chain_list")
            THEN [raised |-> "AttributeError", yielded |-> <<>>]
        ELSE IF missing_position >= Len(chainsum.typ)
            THEN [raised |-> "ValueError", yielded |-> <<>>]
        ELSE generate(cands,
                [k \in 1..Len(cands) |->
                    IF args.no_intensity_check THEN "True"
                    ELSE _intensity_check(cands[k], chainsum)],
                [k \in 1..Len(cands) |->
                    _chains_frag_comb(s, cands[k], chainsum, missing_position,
                        Chain(missing_c(cands[k]), missing_u(cands[k]),
                              chainsum.typ[missing_position + 1],
                              chainsum.attr[missing_position + 1]))],
                1)

----------------------------------------------------------------------------
(* The solver state machine: calls of chain_combinations and of            *)
(* missing_chain on a scan, one after the other.  solver holds the call,   *)
(* its arguments and what its generator yielded until the caller is done   *)
(* with it.                                                                *)

(* The arguments the solver is called with: the defaults, and the          *)
(* defaults with one argument set.                                         *)
SolverArgs(rec) ==
    { DefaultArgs,
      [DefaultArgs EXCEPT !.head = 1],
      [DefaultArgs EXCEPT !.head = 2],
      [DefaultArgs EXCEPT !.intensity_threshold = <<1, 1>>],
      [DefaultArgs EXCEPT !.no_intensity_check = TRUE],
      [DefaultArgs EXCEPT !.frag_types =
            [p \in 1..ChainSumLen(rec.chainsum) |->
                IF p = 1 THEN {"FA-H"} ELSE {}]] }

ChainsFrame == UNCHANGED <<argv, idf, emitted, feature, db, mgf, sorters>>

InitChains ==
    /\ scan \in ConstructedScans
    /\ op = "__init__"
    /\ argv = <<>>
    /\ ret = Nothing
    /\ rt = RtReset
    /\ idf = NoIdentifier
    /\ emitted = <<>>
    /\ solver = NoSolver
    /\ feature = NoFeature
    /\ NoOthers

(* Scan.build_chain_list() called on its own.                             *)
BuildChainList ==
    /\ solver.call = None
    /\ ~Has(scan, "chain_list")
    /\ scan' = build_chain_list(scan)
    /\ UNCHANGED <<op, ret, rt, solver>>
    /\ ChainsFrame

(* chain_combinations(rec, ...) run to its end; the records have a         *)
(* chainsum, so the generator builds the chain list and goes on.           *)
ChainCombinations ==
    /\ solver.call = None
    /\ \E rec \in RecordDb :
        \E args \in SolverArgs(rec) :
            LET s1 == build_chain_list(scan)
                out == chain_combinations(s1, rec, args)
            IN  /\ scan' = s1
                /\ solver' = [call |-> "chain_combinations", rec |-> rec,
                              args |-> args, missing_position |-> -1,
                              raised |-> out.raised, yielded |-> out.yielded]
    /\ UNCHANGED <<op, ret, rt>>
    /\ ChainsFrame

(* missing_chain(rec, missing_position, ...) run to its end.               *)
MissingChain ==
    /\ solver.call = None
    /\ \E rec \in RecordDb :
        \E args \in SolverArgs(rec) :
            \E missing_position \in 0..ChainSumLen(rec.chainsum) :
                LET out == missing_chain(scan, rec, missing_position, args)
                IN  solver' = [call |-> "missing_chain", rec |-> rec,
                               args |-> args,
                               missing_position |-> missing_position,
                               raised |-> out.raised, yielded |-> out.yielded]
    /\ UNCHANGED <<scan, op, ret, rt>>
    /\ ChainsFrame

(* The caller is done with what the generator yielded.                     *)
Return ==
    /\ solver.call # None
    /\ solver' = NoSolver
    /\ UNCHANGED <<scan, op, ret, rt>>
    /\ ChainsFrame

NextChains ==
    \/ BuildChainList
    \/ ChainCombinations
    \/ MissingChain
    \/ Return

SpecChains == InitChains /\ [][NextChains]_vars

----------------------------------------------------------------------------
(* Properties of the solver (checked under SpecChains).                    *)

(* The fragments of the chain list within the limits of the call: among    *)
(* the head first peaks and not below the intensity threshold.             *)
Limited(s, args) ==
    { frag \in {s.chain_list[k] : k \in 1..Len(s.chain_list)} :
        /\ args.head = 0 \/ frag.i < args.head
        /\ s.inorm[frag.i + 1].v[1] * args.intensity_threshold[2]
            >= args.intensity_threshold[1] * s.inorm[frag.i + 1].v[2] }

(* A fragment type is admissible for the position ci of the record: the    *)
(* constraints of the type allow the position and so does frag_types.      *)
Admissible(rec, args, ci, fragtype) ==
    /\ ci \in positions_for_frag_type(rec, fragtype)
    /\ \/ args.frag_types = <<>>
       \/ args.frag_types[ci + 1] = {}
       \/ fragtype \in args.frag_types[ci + 1]

(* The positions of the record for which the limited chain list has no     *)
(* admissible fragment.                                                    *)
Lacking(s, rec, args) ==
    { ci \in 0..(ChainSumLen(rec.chainsum) - 1) :
        \A frag \in Limited(s, args) :
            ~Admissible(rec, args, ci, frag.fragtype) }

(* The position k (1-based) of a yielded combination is filled by a        *)
(* fragment of the limited chain list admissible for it.                   *)
FilledByFragment(s, rec, args, y, k) ==
    \E frag \in Limited(s, args) :
        /\ frag.i = y.details[k].rank
        /\ frag.fragtype = y.details[k].fragtype
        /\ frag.c = y.chains[k].c
        /\ frag.u = y.chains[k].u
        /\ frag.chaintype = y.chains[k].typ
        /\ Admissible(rec, args, k - 1, frag.fragtype)

Carbons(chains) == SumSeq([k \in 1..Len(chains) |-> chains[k].c])

Unsaturations(chains) == SumSeq([k \in 1..Len(chains) |-> chains[k].u])

(* C7: the chains of every combination yielded by chain_combinations sum   *)
(* to the record's total carbon count and total unsaturation.              *)
C7_SumsMatchRecord ==
    solver.call = "chain_combinations" =>
        \A j \in 1..Len(solver.yielded) :
            /\ Carbons(solver.yielded[j].chains) = solver.rec.chainsum.c
            /\ Unsaturations(solver.yielded[j].chains) = solver.rec.chainsum.u

(* C7's case: a combination of chains of different lengths was yielded     *)
(* for a record of three chains.                                           *)
C7_Witness ==
    /\ solver.call = "chain_combinations"
    /\ ChainSumLen(solver.rec.chainsum) = 3
    /\ \E j \in 1..Len(solver.yielded) :
            solver.yielded[j].chains[1].c # solver.yielded[j].chains[3].c

(* C8: chain_combinations yields nothing when a position of the record     *)
(* has no admissible fragment in the limited chain list, and every         *)
(* combination it yields has one admissible fragment of that list at each  *)
(* of the K positions.                                                     *)
C8_EveryPositionFilled ==
    solver.call = "chain_combinations" =>
        /\ Lacking(scan, solver.rec, solver.args) # {} => solver.yielded = <<>>
        /\ \A j \in 1..Len(solver.yielded) :
            /\ Len(solver.yielded[j].chains) = ChainSumLen(solver.rec.chainsum)
            /\ \A k \in 1..Len(solver.yielded[j].chains) :
                FilledByFragment(scan, solver.rec, solver.args,
                                 solver.yielded[j], k)

(* C8's case: the scan has fragments whose carbon counts and               *)
(* unsaturations sum to the record's, but those for the first position     *)
(* are not admissible for it, and nothing was yielded.                     *)
C8_Witness ==
    /\ solver.call = "chain_combinations"
    /\ ChainSumLen(solver.rec.chainsum) = 2
    /\ Lacking(scan, solver.rec, solver.args) = {0}
    /\ \E f, g \in Limited(scan, solver.args) :
            /\ f.c + g.c = solver.rec.chainsum.c
            /\ f.u + g.u = solver.rec.chainsum.u
    /\ solver.yielded = <<>>

(* C9: every missing chain yielded by missing_chain has carbon >= 1 and    *)
(* 0 <= unsaturation <= carbon - 1.                                        *)
C9_MissingChainValid ==
    solver.call = "missing_chain" =>
        \A j \in 1..Len(solver.yielded) :
            LET m == solver.yielded[j].chains[solver.missing_position + 1]
            IN  /\ m.c >= 1
                /\ 0 <= m.u
                /\ m.u <= m.c - 1

(* C9's case: missing_chain yielded a chain although another fragment      *)
(* within the limits would have left a negative unsaturation.              *)
C9_Witness ==
    /\ solver.call = "missing_chain"
    /\ solver.yielded # <<>>
    /\ ChainSumLen(solver.rec.chainsum) = 2
    /\ \E frag \in Limited(scan, solver.args) :
            /\ Admissible(solver.rec, solver.args,
                          1 - solver.missing_position, frag.fragtype)
            /\ frag.u > solver.rec.chainsum.u

(* C10: every result of missing_chain has K chains, the one at the         *)
(* missing position not from a fragment and with the record's carbon       *)
(* count and unsaturation less those of the other chains, every other      *)
(* position filled by an admissible fragment; nothing is yielded when      *)
(* more than one position has no admissible fragment.                      *)
C10_MissingChainShape ==
    solver.call = "missing_chain" =>
        /\ \A j \in 1..Len(solver.yielded) :
            LET y == solver.yielded[j]
                K == ChainSumLen(solver.rec.chainsum)
                p == solver.missing_position + 1
                others == [k \in 1..(K - 1) |->
                            y.chains[IF k < p THEN k ELSE k + 1]]
            IN  /\ Len(y.chains) = K
                /\ y.details[p].rank = -1
                /\ y.chains[p].c = solver.rec.chainsum.c - Carbons(others)
                /\ y.chains[p].u = solver.rec.chainsum.u - Unsaturations(others)
                /\ \A k \in (1..K) \ {p} :
                    FilledByFragment(scan, solver.rec, solver.args, y, k)
        /\ Cardinality(Lacking(scan, solver.rec, solver.args)) > 1
                => solver.yielded = <<>>

(* C10's case: missing_chain yielded a result for a record of three        *)
(* chains with a missing position that is not the last.                    *)
C10_Witness ==
    /\ solver.call = "missing_chain"
    /\ ChainSumLen(solver.rec.chainsum) = 3
    /\ solver.missing_position = 0
    /\ solver.yielded # <<>>

----------------------------------------------------------------------------
(* MS2Feature: the scans of one feature, ordered by their distance in      *)
(* retention time, the identities Scan.identify() gives for each, and the  *)
(* summary of these.                                                       *)

MaxScans == 2

(* MS2Feature.rtmean and the retention times of the scans around it.       *)
rtmean == 2

ScanRts == {1, 2, 3}

(* An MS2Identity as a scan yields it for the record PC(2:1).              *)
Identity(score, score_pct, chains) ==
    [ score |-> score, max_score |-> 10, score_pct |-> score_pct,
      hg |-> "PC", chainsum |-> [c |-> 2, u |-> 1], chains |-> chains ]

chains_a == << [c |-> 1, u |-> 0], [c |-> 1, u |-> 1] >>

chains_b == << [c |-> 1, u |-> 1], [c |-> 1, u |-> 0] >>

(* What Scan.identify() returns: a dict from the summary string of a       *)
(* record to the tuple of the identities its identifier yielded, here an   *)
(* empty dict or one record with its identities.                           *)
ScanResults ==
    { <<>> } \cup
    { << [rec_str |-> "PC(2:1)", varieties |-> v] >> :
        v \in { << Identity(5, 50, chains_a) >>,
                << Identity(10, 100, chains_a) >>,
                << Identity(0, 0, chains_a) >>,
                << Identity(5, 50, chains_a), Identity(5, 50, chains_b) >>,
                << Identity(5, 50, <<>>) >> } }

(* lipproc.full_str(hg, chains) and lipproc.summary_str(hg, chainsum):     *)
(* the name of the species with its chains, or with the sum of them.       *)
full_str(hg, chains) == [hg |-> hg, chains |-> chains]

summary_str(hg, chainsum) == [hg |-> hg, chainsum |-> chainsum]

(* MS2Identity.__str__                                                     *)
MS2Identity_str(self) ==
    IF self.chains # <<>>
        THEN full_str(self.hg, self.chains)
        ELSE summary_str(self.hg, self.chainsum)

(* MS2Identity.__eq__                                                      *)
MS2Identity_eq(self, other) ==
    /\ self.hg = other.hg
    /\ self.chainsum = other.chainsum
    /\ self.chains = other.chains

(* sorted(enumerate(deltart), key = abs(.)): a stable sort.                *)
rtsort(deltart) ==
    CHOOSE p \in Perms(Len(deltart)) :
        \A k \in 1..(Len(deltart) - 1) :
            \/ Abs(deltart[p[k]]) < Abs(deltart[p[k + 1]])
            \/ /\ Abs(deltart[p[k]]) = Abs(deltart[p[k + 1]])
               /\ p[k] < p[k + 1]

(* MS2Feature.build_scans                                                  *)
build_scans(self) ==
    LET scans == self.resources
        deltart == [k \in 1..Len(scans) |-> scans[k].rt - rtmean]
    IN  [self EXCEPT !.scans = Take(scans, rtsort(deltart)),
                     !.deltart = Take(deltart, rtsort(deltart))]

(* MS2Feature.identify: the results of the scans that have any.            *)
RECURSIVE identify_scans(_)
identify_scans(scans) ==
    IF scans = <<>> THEN <<>>
    ELSE (IF Head(scans).result # <<>> THEN << Head(scans).result >>
                                       ELSE <<>>)
         \o identify_scans(Tail(scans))

feature_identify(self) == [self EXCEPT !.identities = identify_scans(self.scans)]

(* One tuple of MS2Feature.identity_summary: the entry of the variety var  *)
(* of the i-th element of self.identities.                                 *)
summary_tuple(self, i, var, args) ==
    << MS2Identity_str(var) >>
    \o (IF args.scores THEN << var.score_pct >> ELSE <<>>)
    \o (IF args.drt THEN << self.deltart[i] >> ELSE <<>>)
    \o (IF args.sample_ids THEN << self.scans[i].sample_id >> ELSE <<>>)
    \o (IF args.scan_ids THEN << self.scans[i].scan_id >> ELSE <<>>)

(* MS2Feature.identity_summary: the set of the tuples of all varieties;    *)
(* without scores the identities of score zero are skipped.                *)
identity_summary(self, args) ==
    UNION { UNION { { summary_tuple(self, i,
                                    self.identities[i][k].varieties[v], args) :
                        v \in { v \in DOMAIN self.identities[i][k].varieties :
                                  \/ args.scores
                                  \/ self.identities[i][k].varieties[v].score
                                        # 0 } } :
                    k \in DOMAIN self.identities[i] } :
            i \in DOMAIN self.identities }

(* The arguments of identity_summary; DefaultSummaryArgs are its defaults. *)
SummaryArgs ==
    [scores : BOOLEAN, drt : BOOLEAN, sample_ids : BOOLEAN,
     scan_ids : BOOLEAN]

DefaultSummaryArgs ==
    [scores |-> TRUE, drt |-> TRUE, sample_ids |-> FALSE, scan_ids |-> FALSE]

(* The scans MS2Feature.iterscans yields, in its order.                    *)
Resources ==
    UNION { { [k \in 1..n |-> [rt |-> r[k][1], result |-> r[k][2],
                               sample_id |-> "A", scan_id |-> k]] :
                r \in [1..n -> ScanRts \X ScanResults] } :
            n \in 1..MaxScans }

FeatureFrame == UNCHANGED <<scan, argv, rt, idf, emitted, solver, db, mgf, sorters>>

InitFeature ==
    /\ scan = NoScan
    /\ op = "__init__"
    /\ argv = <<>>
    /\ ret = Nothing
    /\ rt = RtReset
    /\ idf = NoIdentifier
    /\ emitted = <<>>
    /\ solver = NoSolver
    /\ NoOthers
    /\ \E r \in Resources :
        feature = [ resources |-> r, scans |-> <<>>, deltart |-> <<>>,
                    identities |-> <<>>, built |-> FALSE,
                    identified |-> FALSE, args |-> DefaultSummaryArgs ]

BuildScans ==
    /\ ~feature.built
    /\ feature' = [build_scans(feature) EXCEPT !.built = TRUE]
    /\ op' = "build_scans"
    /\ ret' = Nothing
    /\ FeatureFrame

(* MS2Feature.identify(), which reads self.scans.                          *)
FeatureIdentify ==
    /\ feature.built
    /\ feature' = [feature_identify(feature) EXCEPT !.identified = TRUE]
    /\ op' = "identify"
    /\ ret' = Nothing
    /\ FeatureFrame

(* MS2Feature.identity_summary(...), which reads self.identities.          *)
IdentitySummary ==
    /\ feature.identified
    /\ \E args \in SummaryArgs :
        /\ feature' = [feature EXCEPT !.args = args]
        /\ ret' = Some(identity_summary(feature, args))
    /\ op' = "identity_summary"
    /\ FeatureFrame

NextFeature ==
    \/ BuildScans
    \/ FeatureIdentify
    \/ IdentitySummary

SpecFeature == InitFeature /\ [][NextFeature]_vars

----------------------------------------------------------------------------
(* Properties of the feature (checked under SpecFeature).                  *)

(* All identities of the scans of the feature.                             *)
FeatureIdentities ==
    UNION { UNION { { feature.identities[i][k].varieties[v] :
                        v \in DOMAIN feature.identities[i][k].varieties } :
                    k \in DOMAIN feature.identities[i] } :
            i \in DOMAIN feature.identities }

MaxOf(S) == CHOOSE x \in S : \A y \in S : y <= x

(* C13: the summary identity_summary() returns with its default arguments  *)
(* has at most one entry for each identity of the feature, the identities  *)
(* taken as equal by MS2Identity.__eq__ (headgroup, chainsum, chains), and  *)
(* the entry carries the highest score_pct among the equal identities.     *)
C13_SummaryOnePerIdentity ==
    (op = "identity_summary" /\ feature.args = DefaultSummaryArgs) =>
        \A id \in FeatureIdentities :
            LET entries == { e \in ret[1] : e[1] = MS2Identity_str(id) }
                equal == { other \in FeatureIdentities :
                                MS2Identity_eq(id, other) }
            IN  /\ Cardinality(entries) <= 1
                /\ \A e \in entries :
                        e[2] = MaxOf({ other.score_pct : other \in equal })

(* The entries the scan j of the feature stands for in a summary asked     *)
(* with args: one for each identity its identification gave, with the      *)
(* delta RT, sample id and scan id of that scan.                           *)
EntriesOfScan(j, args) ==
    LET sc == feature.scans[j]
    IN  { << MS2Identity_str(sc.result[k].varieties[v]) >>
          \o (IF args.scores
                THEN << sc.result[k].varieties[v].score_pct >> ELSE <<>>)
          \o (IF args.drt THEN << sc.rt - rtmean >> ELSE <<>>)
          \o (IF args.sample_ids THEN << sc.sample_id >> ELSE <<>>)
          \o (IF args.scan_ids THEN << sc.scan_id >> ELSE <<>>) :
            <<k, v>> \in { kv \in (1..Len(sc.result)) \X (1..2) :
                            kv[2] \in DOMAIN sc.result[kv[1]].varieties } }

----------------------------------------------------------------------------
(* The intensities: the construction of a Scan from a peak list whose ion  *)
(* counts may be zero, the intensity-ratio comparison, and the solver on   *)
(* such scans.                                                             *)

(* The peak lists of a spectrum file: as ScanInputs, with ion counts that  *)
(* may be zero.                                                            *)
RawInputs ==
    UNION { { inp \in ([1..n -> 1..MaxMz] \X [1..n -> 0..MaxInt]) \X Precursors :
                \A k \in 1..(n - 1) : inp[1][1][k] <= inp[1][1][k + 1] }
            : n \in 1..MaxPeaks }

(* The Scan objects at the point where __init__ has stored its arguments.  *)
RawScans ==
    { ScanArgs(inp[1][1], inp[1][2], inp[2]) : inp \in RawInputs }

(* The intensities intensity_ratios is called with.                        *)
RatioInts == (-1..MaxInt) \cup {100, 105, 1000}

(* The arguments of intensity_ratios: the intensities, and frag_indices    *)
(* either all different (the default, range(len(intensities))) or all the  *)
(* same peak.                                                              *)
RatioInputs ==
    UNION { { <<ins, fi>> :
                ins \in [1..n -> RatioInts],
                fi \in { [k \in 1..n |-> k - 1], [k \in 1..n |-> 0] } }
            : n \in 1..MaxPeaks }

InitIntensities ==
    /\ scan \in RawScans
    /\ op = "Scan"
    /\ argv = <<>>
    /\ ret = Nothing
    /\ rt = RtReset
    /\ idf = NoIdentifier
    /\ emitted = <<>>
    /\ solver = NoSolver
    /\ feature = NoFeature
    /\ NoOthers

(* ScanBase.__init__ from annotate() to its end: nothing in it raises.     *)
Construct ==
    /\ op = "Scan"
    /\ scan' = ScanInit(scan)
    /\ op' = "__init__"
    /\ UNCHANGED <<argv, ret, rt>>
    /\ ScanFrame

(* intensity_ratios(intensities, frag_indices) called on a scan.  The      *)
(* method reads nothing of the scan but the labels of its error message:   *)
(* the scans of one peak are the receivers.                                *)
IntensityRatios ==
    /\ op = "__init__"
    /\ solver.call = None
    /\ Len(scan.mzs) = 1
    /\ \E inp \in RatioInputs :
        /\ argv' = inp
        /\ ret' = Some(intensity_ratios(inp[1], inp[2]))
    /\ op' = "intensity_ratios"
    /\ UNCHANGED <<scan, rt>>
    /\ ScanFrame

(* The caller is done with the verdict.                                    *)
RatiosReturn ==
    /\ op = "intensity_ratios"
    /\ op' = "__init__"
    /\ argv' = <<>>
    /\ ret' = Nothing
    /\ UNCHANGED <<scan, rt>>
    /\ ScanFrame

NextIntensities ==
    \/ Construct
    \/ IntensityRatios
    \/ RatiosReturn
    \/ op = "__init__" /\ ChainCombinations
    \/ Return

SpecIntensities == InitIntensities /\ [][NextIntensities]_vars

----------------------------------------------------------------------------
(* Properties of the intensities (checked under SpecIntensities).          *)

(* The corrected intensity (intensity divided by the number of positions   *)
(* its peak fills) at a is at most logbase times the one at b.             *)
WithinLogbase(intensities, frag_indices, a, b) ==
    LET cntr(ind) == Cardinality({k \in 1..Len(intensities) :
                                    frag_indices[k] = ind})
    IN  intensities[a] * cntr(frag_indices[b]) * iratio_logbase[2]
            <= iratio_logbase[1] * intensities[b] * cntr(frag_indices[a])

(* C17: on positive intensities the intensity-ratio check passes if and    *)
(* only if for every pair of corrected intensities neither is more than    *)
(* logbase times the other (the absolute difference of their logarithms    *)
(* in that base is at most 1): with logbase 3/2, [100, 105] passes and     *)
(* [100, 1000] fails.                                                      *)
C17_RatioCheckBothWays ==
    (/\ op = "intensity_ratios"
     /\ \A k \in 1..Len(argv[1]) : argv[1][k] > 0)
        => ( ret = Some("True")
                <=> \A a, b \in 1..Len(argv[1]) :
                        a # b => WithinLogbase(argv[1], argv[2], a, b) )

(* The fragment combinations of a chain_combinations call whose sums       *)
(* match the record: the ones the intensity check is applied to.           *)
SumMatching(s, rec, args) ==
    LET ffp == frags_for_positions(s, rec, args)
    IN  IF Cardinality(DOMAIN ffp) # Len(rec.chainsum.typ) THEN <<>>
        ELSE SelectSeq(product(sorted_values(ffp)),
                LAMBDA frag_comb :
                    /\ SumSeq([k \in 1..Len(frag_comb) |-> frag_comb[k].c])
                            = rec.chainsum.c
                    /\ SumSeq([k \in 1..Len(frag_comb) |-> frag_comb[k].u])
                            = rec.chainsum.u)

(* The settings make the solver compare the intensities for this record.   *)
RatioChecked(rec) ==
    \/ (rec.chainsum.typ[1] = "Sph" /\ check_ratio_s)
    \/ (rec.chainsum.typ[1] # "Sph" /\ check_ratio_g)

(* C19: given two or more intensities of which one is <= 0, the            *)
(* intensity-ratio comparison raises ValueError, never a verdict; and a    *)
(* chain_combinations call that compares such a combination ends with      *)
(* that error raised to its caller.                                        *)
C19_NonPositiveIntensityRaises ==
    /\ (/\ op = "intensity_ratios"
        /\ Len(argv[1]) >= 2
        /\ \E k \in 1..Len(argv[1]) : argv[1][k] <= 0)
            => ret = Some("ValueError")
    /\ (/\ solver.call = "chain_combinations"
        /\ ~solver.args.no_intensity_check
        /\ RatioChecked(solver.rec)
        /\ LET cands == SumMatching(scan, solver.rec, solver.args)
           IN  \E j \in 1..Len(cands) :
                    /\ Len(cands[j]) >= 2
                    /\ \E k \in 1..Len(cands[j]) : cands[j][k].intensity <= 0)
            => solver.raised = "ValueError"

(* C19's case: a chain_combinations call on a scan with a peak of zero     *)
(* intensity next to a peak of positive intensity ended with ValueError.   *)
C19_Witness ==
    /\ solver.call = "chain_combinations"
    /\ solver.raised = "ValueError"
    /\ scan.imax > 0
    /\ \E k \in 1..Len(scan.intensities) : scan.intensities[k].v = 0

(* C20: a constructed Scan never holds normalized intensities obtained by  *)
(* dividing by a maximum intensity of 0: such a construction is an error.  *)
C20_ZeroMaximumIsAnError ==
    (op # "Scan" /\ Has(scan, "inorm")) => scan.imax # 0

----------------------------------------------------------------------------
(* The solver on a scan of three peaks annotated as the fatty acyl         *)
(* fragments 18:0, 18:1 and 16:0, one per peak.                            *)

(* The carbon count and unsaturation of the three fragments.               *)
ScenarioFragments ==
    << [c |-> 18, u |-> 0], [c |-> 18, u |-> 1], [c |-> 16, u |-> 0] >>

(* The row of the fragment table a peak of such a fragment is annotated    *)
(* with: an FA-H fragment, which any fatty acyl position admits.           *)
ScenarioRow(frag, mz) ==
    [mz |-> mz, name |-> "FA-H", fragtype |-> "FA-H", chaintype |-> "FA",
     c |-> frag.c, u |-> frag.u, charge |-> -1]

(* The constructed scans of three peaks, the peaks annotated with the      *)
(* three fragments in any order.                                           *)
ScenarioScans ==
    { [s EXCEPT !.annot =
            [k \in 1..Len(s.mzs) |->
                [v |-> << ScenarioRow(ScenarioFragments[p[k]], s.mzs[k].v) >>,
                 pk |-> s.mzs[k].pk]]] :
        s \in { c \in ConstructedScans : Len(c.mzs) = Len(ScenarioFragments) },
        p \in Perms(Len(ScenarioFragments)) }

(* The MS1 records of two fatty acyl chains the solver is asked about.     *)
ScenarioRecords ==
    { LipidRecord("DAG", 36, 1, <<"FA", "FA">>, ""),
      LipidRecord("DAG", 36, 0, <<"FA", "FA">>, ""),
      LipidRecord("DAG", 34, 0, <<"FA", "FA">>, ""),
      LipidRecord("DAG", 34, 1, <<"FA", "FA">>, "") }

InitScenario ==
    /\ scan \in ScenarioScans
    /\ op = "__init__"
    /\ argv = <<>>
    /\ ret = Nothing
    /\ rt = RtReset
    /\ idf = NoIdentifier
    /\ emitted = <<>>
    /\ solver = NoSolver
    /\ feature = NoFeature
    /\ NoOthers

(* chain_combinations(rec, ...) run to its end on such a scan.             *)
ScenarioCombinations ==
    /\ solver.call = None
    /\ \E rec \in ScenarioRecords :
        \E args \in SolverArgs(rec) :
            LET s1 == build_chain_list(scan)
                out == chain_combinations(s1, rec, args)
            IN  /\ scan' = s1
                /\ solver' = [call |-> "chain_combinations", rec |-> rec,
                              args |-> args, missing_position |-> -1,
                              raised |-> out.raised, yielded |-> out.yielded]
    /\ UNCHANGED <<op, ret, rt>>
    /\ ChainsFrame

NextScenario ==
    \/ ScenarioCombinations
    \/ Return

SpecScenario == InitScenario /\ [][NextScenario]_vars

----------------------------------------------------------------------------
(* Properties of the solver on the three fragments (checked under          *)
(* SpecScenario).                                                          *)

(* The (carbon count, unsaturation) pairs of a yielded combination, by     *)
(* position.                                                               *)
ChainsCU(y) == [k \in 1..Len(y.chains) |-> <<y.chains[k].c, y.chains[k].u>>]

(* The call of the scenario: the record of total 36:1, the intensity       *)
(* check bypassed, all three fragments candidates at both positions.       *)
ScenarioCall ==
    /\ solver.call = "chain_combinations"
    /\ solver.rec.chainsum.c = 36
    /\ solver.rec.chainsum.u = 1
    /\ solver.args = [DefaultArgs EXCEPT !.no_intensity_check = TRUE]

(* C18 as stated: for the record of total 36:1 and the fragments 18:0,     *)
(* 18:1, 16:0 admissible at both positions, chain_combinations yields      *)
(* exactly one combination, 18:0 + 18:1, and never 16:0 + 18:0.            *)
C18_ExactlyOneCombination ==
    ScenarioCall =>
        /\ Len(solver.yielded) = 1
        /\ ChainsCU(solver.yielded[1]) = << <<18, 0>>, <<18, 1>> >>
        /\ \A j \in 1..Len(solver.yielded) :
                ChainsCU(solver.yielded[j]) # << <<16, 0>>, <<18, 0>> >>

(* C18 amended: chain_combinations yields exactly the two assignments of   *)
(* 18:0 and 18:1 to the two positions, 18:0 + 18:1 and 18:1 + 18:0, and    *)
(* never 16:0 + 18:0.                                                      *)
C18_BothAssignmentsYielded ==
    ScenarioCall =>
        /\ Len(solver.yielded) = 2
        /\ { ChainsCU(solver.yielded[j]) : j \in 1..Len(solver.yielded) }
                = { << <<18, 0>>, <<18, 1>> >>, << <<18, 1>>, <<18, 0>> >> }
        /\ \A j \in 1..Len(solver.yielded) :
                ChainsCU(solver.yielded[j]) # << <<16, 0>>, <<18, 0>> >>

(* C18's case: the call of the scenario has run and yielded 18:0 + 18:1.   *)
C18_Witness ==
    /\ ScenarioCall
    /\ \E j \in 1..Len(solver.yielded) :
            ChainsCU(solver.yielded[j]) = << <<18, 0>>, <<18, 1>> >>

----------------------------------------------------------------------------
(* The chain attribute filters: match_chattr, match_annot and              *)
(* chain_fragment_type_is.                                                 *)

(* The values of the `accepted` argument: None, a single value, a set of   *)
(* values, and the tuple (False, set) of a negative match.                 *)
AnyValue == [kind |-> "None"]

Single(v) == [kind |-> "single", v |-> v]

AnyOf(S) == [kind |-> "set", s |-> S]

NoneOf(S) == [kind |-> "negated", s |-> S]

(* Scan.match_chattr(value, accepted, typ).  isnan marks the nan of a      *)
(* fragment without a chain: nan equals nothing and is in no set.  For a   *)
(* tuple (False, S) `value in accepted` compares the value with False and  *)
(* with S: an integer 0 equals False.                                      *)
match_chattr(value, isnan, accepted, typ) ==
    CASE accepted.kind = "None" -> TRUE
      [] accepted.kind = "single" -> ~isnan /\ value = accepted.v
      [] accepted.kind = "set" -> ~isnan /\ value \in accepted.s
      [] accepted.kind = "negated" ->
            \/ (typ = "int" /\ ~isnan /\ value = 0)
            \/ isnan
            \/ value \notin accepted.s

(* Scan.match_annot                                                        *)
match_annot(annot, frag_type, chain_type, c, u) ==
    /\ match_chattr(annot.fragtype, FALSE, frag_type, "basestring")
    /\ match_chattr(annot.chaintype, annot.c = 0, chain_type, "basestring")
    /\ match_chattr(annot.c, annot.c = 0, c, "int")
    /\ match_chattr(annot.u, annot.c = 0, u, "int")

(* Scan.chain_fragment_type_is with adduct = None, return_annot = False.   *)
chain_fragment_type_is(s, i, frag_type, chain_type, c, u) ==
    IF i >= Len(s.mzs) THEN FALSE
    ELSE \E k \in 1..Len(s.annot[i + 1].v) :
            match_annot(s.annot[i + 1].v[k], frag_type, chain_type, c, u)

(* The filters the identifiers call chain_fragment_type_is with: one       *)
(* attribute filtered, or a fragment type and a negated unsaturation as    *)
(* in Cer_Positive.sphingosine_d.                                          *)
ChainFilters ==
    LET none == [frag_type |-> AnyValue, chain_type |-> AnyValue,
                 c |-> AnyValue, u |-> AnyValue]
    IN  {none}
        \cup { [none EXCEPT !.frag_type = f] :
                f \in {Single("FA-H"), AnyOf({"FA-H", "Sph-H"}), NoneOf({"FA-H"})} }
        \cup { [none EXCEPT !.chain_type = f] :
                f \in {Single("Sph"), NoneOf({"Sph"})} }
        \cup { [none EXCEPT !.c = f] :
                f \in {Single(2), AnyOf({1, 2}), NoneOf({1})} }
        \cup { [none EXCEPT !.u = f] :
                f \in {Single(0), AnyOf({0, 1}), NoneOf({0}), NoneOf({1})} }
        \cup { [none EXCEPT !.frag_type = Single("FA-H"), !.u = NoneOf({0})] }

(* scan.chain_fragment_type_is(i, frag_type, chain_type, c, u)             *)
ChainFragmentTypeIs ==
    /\ op = "__init__"
    /\ \E i \in 0..Len(scan.mzs) :
        \E f \in ChainFilters :
            /\ argv' = <<i, f>>
            /\ ret' = Some(chain_fragment_type_is(scan, i, f.frag_type,
                                                  f.chain_type, f.c, f.u))
    /\ op' = "chain_fragment_type_is"
    /\ UNCHANGED <<scan, rt>>
    /\ ScanFrame

(* The caller is done with the answer.                                     *)
FilterReturn ==
    /\ op = "chain_fragment_type_is"
    /\ op' = "__init__"
    /\ argv' = <<>>
    /\ ret' = Nothing
    /\ UNCHANGED <<scan, rt>>
    /\ ScanFrame

NextFilters ==
    \/ ChainFragmentTypeIs
    \/ FilterReturn

SpecFilters == Init /\ [][NextFilters]_vars

----------------------------------------------------------------------------
(* Properties of the filters (checked under SpecFilters).                  *)

(* What a filter is documented to accept: None anything, a single value    *)
(* that value, a set its members, a negated set the values not in it.      *)
Accepts(value, isnan, accepted) ==
    CASE accepted.kind = "None" -> TRUE
      [] accepted.kind = "single" -> ~isnan /\ value = accepted.v
      [] accepted.kind = "set" -> ~isnan /\ value \in accepted.s
      [] accepted.kind = "negated" -> isnan \/ value \notin accepted.s

(* C21: chain_fragment_type_is(i, ...) answers whether an annotation of    *)
(* the peak i passes all four filters, a filter accepting any value when   *)
(* None, only its value when single, exactly its members when a set, and   *)
(* exactly the values outside S when a negated set (False, S): the         *)
(* unsaturation filter (False, {0}) rejects unsaturation 0.                *)
C21_FilterAcceptance ==
    op = "chain_fragment_type_is" =>
        LET i == argv[1]
            f == argv[2]
        IN  ret = Some(
                /\ i < Len(scan.mzs)
                /\ \E k \in 1..Len(scan.annot[i + 1].v) :
                    LET an == scan.annot[i + 1].v[k]
                    IN  /\ Accepts(an.fragtype, FALSE, f.frag_type)
                        /\ Accepts(an.chaintype, an.c = 0, f.chain_type)
                        /\ Accepts(an.c, an.c = 0, f.c)
                        /\ Accepts(an.u, an.c = 0, f.u))

----------------------------------------------------------------------------
(* Scan.matching_chain_combinations and Scan.has_chain_combination.        *)

(* The chain_param tuples: one dict for each chain moiety, a dict the set  *)
(* of fragment types under its key frag_type, {} for the empty dict.       *)
ChainParams ==
    { <<>>, << {"FA-H"} >>, << {"Sph-H"}, {} >> }

(* Scan.matching_chain_combinations: the combinations of                   *)
(* chain_combinations, called with head = None, intensity_threshold = 0    *)
(* and no_intensity_check = False, in which every dict of chain_param      *)
(* matches a chain.  args holds the head, intensity_threshold and          *)
(* no_intensity_check the method was called with.                          *)
scan_matching_chain_combinations(s, rec, args, chain_param) ==
    LET params == IF ChainSumLen(rec.chainsum) > 1 /\ Len(chain_param) = 1
                    THEN [k \in 1..ChainSumLen(rec.chainsum) |-> chain_param[1]]
                    ELSE chain_param
        out == chain_combinations(s, rec, DefaultArgs)
    IN  [out EXCEPT !.yielded =
            SelectSeq(@, LAMBDA y :
                \A p \in 1..Len(params) :
                    \/ params[p] = {}
                    \/ \E i \in 1..Len(y.chains) :
                            y.details[i].fragtype \in params[p])]

(* Scan.has_chain_combination: whether the generator yields at all; the    *)
(* exception of the generator if it raises before it yields.               *)
has_chain_combination(s, rec, args, chain_param) ==
    LET out == scan_matching_chain_combinations(s, rec, args, chain_param)
    IN  [found |-> out.yielded # <<>>,
         raised |-> IF out.yielded # <<>> THEN None ELSE out.raised]

(* The head and intensity_threshold arguments of the two methods.          *)
LimitArgs ==
    { DefaultArgs,
      [DefaultArgs EXCEPT !.head = 1],
      [DefaultArgs EXCEPT !.intensity_threshold = <<1, 1>>] }

(* matching_chain_combinations(rec, head, intensity_threshold,             *)
(* chain_param) run to its end.                                            *)
MatchingChainCombinations ==
    /\ solver.call = None
    /\ \E rec \in RecordDb :
        \E args \in LimitArgs :
            \E chain_param \in ChainParams :
                LET s1 == build_chain_list(scan)
                    out == scan_matching_chain_combinations(s1, rec, args,
                                                            chain_param)
                IN  /\ scan' = s1
                    /\ solver' = [call |-> "matching_chain_combinations",
                                  rec |-> rec, args |-> args,
                                  chain_param |-> chain_param,
                                  raised |-> out.raised,
                                  yielded |-> out.yielded]
    /\ UNCHANGED <<op, ret, rt>>
    /\ ChainsFrame

(* has_chain_combination(rec, head, intensity_threshold, chain_param)      *)
HasChainCombination ==
    /\ solver.call = None
    /\ \E rec \in RecordDb :
        \E args \in LimitArgs :
            \E chain_param \in ChainParams :
                LET s1 == build_chain_list(scan)
                    out == has_chain_combination(s1, rec, args, chain_param)
                IN  /\ scan' = s1
                    /\ solver' = [call |-> "has_chain_combination",
                                  rec |-> rec, args |-> args,
                                  chain_param |-> chain_param,
                                  raised |-> out.raised,
                                  found |-> out.found]
    /\ UNCHANGED <<op, ret, rt>>
    /\ ChainsFrame

NextMatching ==
    \/ MatchingChainCombinations
    \/ HasChainCombination
    \/ Return

SpecMatching == InitChains /\ [][NextMatching]_vars

----------------------------------------------------------------------------
(* Properties of the two methods (checked under SpecMatching).             *)

(* Every fragment of the combination is among the head most intense peaks  *)
(* and not below the intensity threshold.                                  *)
WithinLimits(s, args, y) ==
    \A k \in 1..Len(y.details) :
        /\ args.head = 0 \/ y.details[k].rank < args.head
        /\ s.inorm[y.details[k].rank + 1].v[1] * args.intensity_threshold[2]
            >= args.intensity_threshold[1] * s.inorm[y.details[k].rank + 1].v[2]

(* C22: matching_chain_combinations called with head = n and               *)
(* intensity_threshold = t yields only combinations of fragments among     *)
(* the n most intense peaks with relative intensity at least t, and        *)
(* has_chain_combination answers True only if there is such a combination. *)
C22_LimitsRespected ==
    /\ solver.call = "matching_chain_combinations" =>
            \A j \in 1..Len(solver.yielded) :
                WithinLimits(scan, solver.args, solver.yielded[j])
    /\ (solver.call = "has_chain_combination" /\ solver.found) =>
            LET all == scan_matching_chain_combinations(
                            scan, solver.rec, solver.args, solver.chain_param)
            IN  \E j \in 1..Len(all.yielded) :
                    WithinLimits(scan, solver.args, all.yielded[j])

----------------------------------------------------------------------------
(* The fragdb module: init_db, get_db and the module level lookup_nl.      *)

MaxBuilds == 3

IonModes == {"pos", "neg"}

(* The keyword arguments a database is created with: none, or a list of    *)
(* fragment classes to leave out.                                          *)
DbKwargs == { "{}", "{exclude}" }

(* The m/z and tolerance (ppm) arguments of lookup_nl; the precursor lies  *)
(* above the m/z by a neutral loss of 1..MaxMz.                            *)
NlMzs == 1..(MaxMz + 2)

NlTolerances == {Tolerance, 250000, 500000}

(* init_db(ionmode, **kwargs): creates a FragmentDatabaseAggregator and    *)
(* sets it as the attribute db_<ionmode> of the module.                    *)
init_db(d, ionmode, kwargs) ==
    [d EXCEPT ![ionmode] = [id |-> d.built + 1, ionmode |-> ionmode,
                            kwargs |-> kwargs],
              !.built = @ + 1]

(* get_db as it would be if it created the database at every call.         *)
get_db_always_init(d, ionmode, kwargs) ==
    LET d1 == init_db(d, ionmode, kwargs)
    IN  [mod |-> d1, db |-> d1[ionmode]]

(* get_db(ionmode, **kwargs): the module after the call and the database   *)
(* returned.                                                               *)
get_db(d, ionmode, kwargs) ==
    LET d1 == IF d[ionmode] = NoAttr THEN init_db(d, ionmode, kwargs) ELSE d
    IN  [mod |-> d1, db |-> d1[ionmode]]

DbFrame == UNCHANGED <<scan, rt, idf, emitted, solver, feature, mgf, sorters>>

InitFragDb ==
    /\ scan = NoScan
    /\ op = "import"
    /\ argv = <<>>
    /\ ret = Nothing
    /\ rt = RtReset
    /\ idf = NoIdentifier
    /\ emitted = <<>>
    /\ solver = NoSolver
    /\ feature = NoFeature
    /\ NoOthers

(* init_db(ionmode, **kwargs) called from outside the module.              *)
InitDb ==
    /\ db.built < MaxBuilds
    /\ \E ionmode \in IonModes :
        \E kwargs \in DbKwargs :
            /\ db' = init_db(db, ionmode, kwargs)
            /\ argv' = <<ionmode, kwargs>>
    /\ op' = "init_db"
    /\ ret' = Nothing
    /\ DbFrame

(* get_db(ionmode, **kwargs)                                               *)
GetDb ==
    /\ \E ionmode \in IonModes :
        \E kwargs \in DbKwargs :
            LET out == get_db(db, ionmode, kwargs)
            IN  /\ db[ionmode] # NoAttr \/ db.built < MaxBuilds
                /\ db' = out.mod
                /\ ret' = Some(out.db)
                /\ argv' = <<ionmode, kwargs>>
    /\ op' = "get_db"
    /\ DbFrame

(* lookup_nl(mz, precursor, ionmode, tolerance): get_db(ionmode) and the   *)
(* lookup_nl of that database.  The table of the model serves both ion     *)
(* modes.                                                                  *)
LookupNl ==
    /\ \E mz \in NlMzs :
        \E nlmz \in 1..MaxMz :
            \E ionmode \in IonModes :
                \E tolerance \in NlTolerances :
                    /\ db[ionmode] # NoAttr \/ db.built < MaxBuilds
                    /\ db' = get_db(db, ionmode, "{}").mod
                    /\ ret' = Some(Rows(db_lookup_nl(mz, mz + nlmz, tolerance)))
                    /\ argv' = <<mz, mz + nlmz, ionmode, tolerance>>
    /\ op' = "lookup_nl"
    /\ DbFrame

NextFragDb ==
    \/ InitDb
    \/ GetDb
    \/ LookupNl

SpecFragDb == InitFragDb /\ [][NextFragDb]_vars

----------------------------------------------------------------------------
(* Properties of the fragdb module (checked under SpecFragDb).             *)

(* C23: lookup_nl(mz, precursor, tolerance) returns exactly the rows of    *)
(* charge zero whose mass lies within mz * tolerance * 1e-6 of             *)
(* precursor - mz: the window the tolerance gives at the peak's m/z.       *)
C23_NlWindowOfPeak ==
    op = "lookup_nl" =>
        LET mz == argv[1]
            precursor == argv[2]
            tolerance == argv[4]
        IN  ret = Some(SelectSeq(FragDb, LAMBDA r :
                        /\ r.charge = 0
                        /\ Abs(r.mz - (precursor - mz)) * 1000000
                                <= mz * tolerance))

(* C23's case: a neutral loss record was found that lies outside the       *)
(* window the tolerance gives at the neutral loss mass itself.             *)
C23_Witness ==
    /\ op = "lookup_nl"
    /\ ret # Some(<<>>)
    /\ \E k \in 1..Len(ret[1]) :
            Abs(ret[1][k].mz - (argv[2] - argv[1])) * 1000000
                > (argv[2] - argv[1]) * argv[4]

(* C24: a get_db call for an ion mode whose database exists returns that   *)
(* database and leaves the module as it is, whatever the keyword           *)
(* arguments; a call for an ion mode without a database creates exactly    *)
(* one and returns it; and the databases of the two ion modes are          *)
(* different objects.                                                      *)
C24_GetDbBuildsOnce ==
    [][ op' = "get_db" =>
            LET ionmode == argv'[1]
            IN  /\ db[ionmode] # NoAttr =>
                        (db' = db /\ ret' = Some(db[ionmode]))
                /\ db[ionmode] = NoAttr =>
                        /\ db'.built = db.built + 1
                        /\ ret' = Some(db'[ionmode])
                        /\ \A other \in IonModes \ {ionmode} :
                                db'[other] = db[other]
                /\ (db'.pos # NoAttr /\ db'.neg # NoAttr) =>
                        db'.pos.id # db'.neg.id ]_vars

(* C24's case: get_db was called with other keyword arguments than the     *)
(* database of its ion mode was created with, and both databases exist.    *)
C24_Witness ==
    /\ op = "get_db"
    /\ db.pos # NoAttr
    /\ db.neg # NoAttr
    /\ ret = Some(db[argv[1]])
    /\ db[argv[1]].kwargs # argv[2]


----------------------------------------------------------------------------
(* MgfReader: the index of the MS2 scans of one MGF file, the lookup of    *)
(* scans by precursor mass and retention time, and MS2Feature's iteration  *)
(* over the scans found.                                                   *)

MaxRows == 3

(* The rows of an index: precursor mass and retention time.                *)
MgfRows == [pepmass : 1..MaxMz, rt : ScanRts]

(* MgfReader.index: the scans of the file, sorted by precursor mass.       *)
MgfIndexes ==
    {ix \in UNION {[1..n -> MgfRows] : n \in 0..MaxRows} :
        \A k \in 1..(Len(ix) - 1) : ix[k].pepmass <= ix[k + 1].pepmass}

(* deltart_threshold and ms2_rt_within_range of the settings.              *)
RtTolerances == {1, 2}

MgfReaders ==
    [mgfindex : MgfIndexes, rt_tolerance : RtTolerances, drift : {1},
     ms2_rt_within_range : BOOLEAN, tolerance : {Tolerance}]

(* The retention time argument of lookup: None or a number.                *)
LookupRts == {Nothing} \cup {Some(r) : r \in 0..3}

(* The RT differences of the rows idx to the retention time t; nan if t    *)
(* is nan.                                                                 *)
rtdiff_of(self, idx, t) ==
    [k \in 1..Len(idx) |->
        IF t = Nothing THEN Nothing ELSE Some(self.mgfindex[idx[k]].rt - t[1])]

(* np.logical_or(np.isnan(rtdiff), np.abs(rtdiff) < self.rt_tolerance)     *)
rt_within_range(self, rtdiff) ==
    {k \in 1..Len(rtdiff) :
        rtdiff[k] = Nothing \/ Abs(rtdiff[k][1]) < self.rt_tolerance}

(* MgfReader.lookup(mz, rt, tolerance): the rows (1-based) whose           *)
(* precursor mass matches, and the RT differences.  With                   *)
(* ms2_rt_within_range the rows are filtered by the RT difference; the     *)
(* array of RT differences is returned as it was computed.                 *)
mgf_lookup(self, mz, t, tolerance) ==
    LET rt_ == IF t = Nothing \/ t[1] = 0 THEN Nothing ELSE t
        pepmasses == [k \in 1..Len(self.mgfindex) |-> self.mgfindex[k].pepmass]
        idx == SortedSeq(findall(pepmasses, mz \div self.drift,
                    IF tolerance = Nothing THEN self.tolerance ELSE tolerance[1], 1))
        rtdiff == rtdiff_of(self, idx, rt_)
        keep == SortedSeq(rt_within_range(self, rtdiff))
    IN  IF self.ms2_rt_within_range
        THEN [idx |-> Take(idx, keep), rtdiff |-> rtdiff]
        ELSE [idx |-> idx, rtdiff |-> rtdiff]

(* MS2Feature.mgf_iterscans: the scans yielded for the pairs of            *)
(* zip(idx, rtdiff), those outside the RT range left out if check_rt.      *)
mgf_iterscans(self, mz, check_rt, rtrange) ==
    LET out == mgf_lookup(self, mz, Some(rtmean), Nothing)
        n == Min(Len(out.idx), Len(out.rtdiff))
        pairs == [k \in 1..n |-> [i |-> out.idx[k], rtd |-> out.rtdiff[k]]]
        inrange(p) ==
            \/ ~check_rt
            \/ p.rtd = Nothing
            \/ ~ (rtmean + p.rtd[1] < rtrange[1] \/ rtmean + p.rtd[1] > rtrange[2])
        yielded == SelectSeq(pairs, inrange)
    IN  [k \in 1..Len(yielded) |->
            [row |-> yielded[k].i, deltart |-> yielded[k].rtd,
             rt |-> self.mgfindex[yielded[k].i].rt]]

MgfOps == {"lookup", "mgf_iterscans"}

MgfFrame == UNCHANGED <<scan, rt, idf, emitted, solver, feature, db, mgf, sorters>>

InitMgf ==
    /\ scan = NoScan
    /\ op = "MgfReader"
    /\ argv = <<>>
    /\ ret = Nothing
    /\ rt = RtReset
    /\ idf = NoIdentifier
    /\ emitted = <<>>
    /\ solver = NoSolver
    /\ feature = NoFeature
    /\ db = NoDb
    /\ sorters = NoSorters
    /\ mgf \in MgfReaders

(* MgfReader.lookup(mz, rt)                                                *)
Lookup ==
    /\ op \notin MgfOps
    /\ \E mz \in 1..MaxMz :
        \E t \in LookupRts :
            /\ argv' = <<mz, t>>
            /\ ret' = Some(mgf_lookup(mgf, mz, t, Nothing))
    /\ op' = "lookup"
    /\ MgfFrame

(* MS2Feature.mgf_iterscans(mgf_resource) of a feature of m/z mz at        *)
(* rtmean with the RT range (lo, hi).                                      *)
MgfIterscans ==
    /\ op \notin MgfOps
    /\ \E mz \in 1..MaxMz :
        \E check_rt \in BOOLEAN :
            \E lo \in {r \in ScanRts : r <= rtmean} :
                \E hi \in {r \in ScanRts : r >= rtmean} :
                    /\ argv' = <<mz, check_rt, <<lo, hi>> >>
                    /\ ret' = Some(mgf_iterscans(mgf, mz, check_rt, <<lo, hi>>))
    /\ op' = "mgf_iterscans"
    /\ MgfFrame

(* The caller has taken the result.                                        *)
MgfReturn ==
    /\ op \in MgfOps
    /\ op' = "return"
    /\ argv' = <<>>
    /\ ret' = Nothing
    /\ MgfFrame

NextMgf ==
    \/ Lookup
    \/ MgfIterscans
    \/ MgfReturn

SpecMgf == InitMgf /\ [][NextMgf]_vars

----------------------------------------------------------------------------
(* Properties of MgfReader.lookup (checked under SpecMgf).                 *)

(* C25: lookup returns two arrays of the same length, and the k-th RT      *)
(* difference is the difference between the retention time of the scan at  *)
(* the k-th index and the retention time looked up (nan if none was        *)
(* given), also when the RT filter removes some of the precursor matches.  *)
C25_IndexAndRtDiffAligned ==
    op = "lookup" =>
        LET out == ret[1]
            t == IF argv[2] = Nothing \/ argv[2][1] = 0 THEN Nothing ELSE argv[2]
        IN  /\ Len(out.idx) = Len(out.rtdiff)
            /\ \A k \in 1..Len(out.idx) :
                    out.rtdiff[k] =
                        IF t = Nothing THEN Nothing
                        ELSE Some(mgf.mgfindex[out.idx[k]].rt - t[1])

----------------------------------------------------------------------------
(* SampleSorter: objects over the same samples which register each other   *)
(* to keep their samples in the same order.                                *)

MaxSorters == 3

SampleIds == {1, 2, 3}

(* The orders of the samples: sample_index_to_id of a SampleSetAttrs.      *)
SampleOrders == Perms(Cardinality(SampleIds))

(* The objects of a list, each once.                                       *)
SampleDataLists(n) ==
    { <<>> } \cup {<<a>> : a \in 1..n}
             \cup {x \in (1..n) \X (1..n) : x[1] # x[2]}

(* SampleSetAttrs.argsort_by_sample_id: the index array that brings the    *)
(* samples of the order attrs into the order sample_ids.                   *)
argsort_by_sample_id(attrs, sample_ids) ==
    [k \in 1..Len(sample_ids) |->
        CHOOSE i \in 1..Len(attrs) : attrs[i] = sample_ids[k]]

(* SampleSetAttrs.sort_by_index: attrs = attrs[idx]                        *)
sort_by_index(attrs, idx) == Take(attrs, idx)

(* SampleSorter.sort_by(s): the object takes the order of s.               *)
sorter_sort_by(ss, a, s) ==
    [ss EXCEPT ![a].attrs =
        sort_by_index(@, argsort_by_sample_id(@, ss[s].attrs))]

(* SampleSorter.register(s): self.sort_by(s), s is added to the objects    *)
(* of self, and s registers self unless it has it.                         *)
RECURSIVE register(_, _, _)
register(ss, a, s) ==
    LET ss1 == sorter_sort_by(ss, a, s)
        ss2 == [ss1 EXCEPT ![a]._sample_data = @ \cup {s}]
    IN  IF a \notin ss2[s]._sample_data THEN register(ss2, s, a) ELSE ss2

RECURSIVE register_all(_, _, _)
register_all(ss, a, sample_data) ==
    IF sample_data = <<>> THEN ss
    ELSE register_all(register(ss, a, Head(sample_data)), a, Tail(sample_data))

(* SampleSorter.__init__(sample_data, sample_ids): the order is            *)
(* sample_ids, or that of the first object if no sample_ids is given;      *)
(* then each object of sample_data is registered.                          *)
sorter_init(ss, sample_data, sample_ids) ==
    LET ids == IF sample_ids # Nothing THEN sample_ids[1]
               ELSE ss[sample_data[1]].attrs
        new == Append(ss, [attrs |-> ids, _sample_data |-> {}])
    IN  register_all(new, Len(new), sample_data)

(* The objects SampleSorter.sort reaches from the objects of done.         *)
RECURSIVE Connected(_, _)
Connected(ss, done) ==
    LET more == done \cup UNION {ss[a]._sample_data : a \in done}
    IN  IF more = done THEN done ELSE Connected(ss, more)

(* SampleSorter.sort(idx): sorts the object by idx, then all objects       *)
(* connected that are not done yet.                                        *)
sorter_sort(ss, a, idx) ==
    LET done == Connected(ss, {a})
    IN  [k \in 1..Len(ss) |->
            IF k \in done
            THEN [ss[k] EXCEPT !.attrs = sort_by_index(@, idx)]
            ELSE ss[k]]

(* SampleSorter.sort_by_sample_ids(sample_ids)                             *)
sort_by_sample_ids(ss, a, sample_ids) ==
    sorter_sort(ss, a, argsort_by_sample_id(ss[a].attrs, sample_ids))

SorterFrame == UNCHANGED <<scan, argv, ret, rt, idf, emitted, solver, feature, db, mgf>>

InitSorters ==
    /\ scan = NoScan
    /\ op = "import"
    /\ argv = <<>>
    /\ ret = Nothing
    /\ rt = RtReset
    /\ idf = NoIdentifier
    /\ emitted = <<>>
    /\ solver = NoSolver
    /\ feature = NoFeature
    /\ NoOthers

(* SampleSorter(sample_data = ..., sample_ids = ...)                       *)
SorterInit ==
    /\ Len(sorters) < MaxSorters
    /\ \E sample_data \in SampleDataLists(Len(sorters)) :
        \E sample_ids \in {Nothing} \cup {Some(o) : o \in SampleOrders} :
            /\ sample_ids # Nothing \/ sample_data # <<>>
            /\ sorters' = sorter_init(sorters, sample_data, sample_ids)
    /\ op' = "__init__"
    /\ SorterFrame

(* a.register(s)                                                           *)
Register ==
    /\ \E a, s \in 1..Len(sorters) :
            /\ a # s
            /\ sorters' = register(sorters, a, s)
    /\ op' = "register"
    /\ SorterFrame

(* a.sort(idx)                                                             *)
Sort ==
    /\ \E a \in 1..Len(sorters) :
        \E idx \in SampleOrders :
            sorters' = sorter_sort(sorters, a, idx)
    /\ op' = "sort"
    /\ SorterFrame

(* a.sort_by_sample_ids(sample_ids)                                        *)
SortBySampleIds ==
    /\ \E a \in 1..Len(sorters) :
        \E sample_ids \in SampleOrders :
            sorters' = sort_by_sample_ids(sorters, a, sample_ids)
    /\ op' = "sort_by_sample_ids"
    /\ SorterFrame

NextSorters ==
    \/ SorterInit
    \/ Register
    \/ Sort
    \/ SortBySampleIds

SpecSorters == InitSorters /\ [][NextSorters]_vars

----------------------------------------------------------------------------
(* Properties of SampleSorter (checked under SpecSorters).                 *)

(* C26: whatever constructor registrations, register, sort and             *)
(* sort_by_sample_ids calls were made, two objects of which one is         *)
(* registered at the other hold their samples in the same order.           *)
C26_ConnectedSortersInSameOrder ==
    \A a \in 1..Len(sorters) :
        \A s \in sorters[a]._sample_data :
            sorters[a].attrs = sorters[s].attrs

----------------------------------------------------------------------------
(* The cached chain lists under the sort transitions: the chain list of    *)
(* the scan and of its adduct views, built in either sort order.           *)

NextChainList ==
    \/ SortMz
    \/ SortIntensity
    \/ Adduct
    \/ BuildChainList

SpecChainList == Init /\ [][NextChainList]_vars

(* All cached chain lists of the scan.                                     *)
CachedChainLists ==
    (IF Has(scan, "chain_list") THEN {scan.chain_list} ELSE {})
    \cup {scan.adducts[ad].chain_list : ad \in DOMAIN scan.adducts}

(* C29: whenever the scan is in intensity order, the index i of every      *)
(* entry of a cached chain list, of the scan or of an adduct view, points  *)
(* at a peak with the intensity stored in the entry, whichever order the   *)
(* scan was in when the list was built.                                    *)
C29_ChainListIndexInIntensityOrder ==
    scan.sorted_by = "intensities" =>
        \A cl \in CachedChainLists :
            \A k \in 1..Len(cl) :
                scan.intensities[cl[k].i + 1].v = cl[k].intensity
=============================================================================
